---------------------------- MODULE Spec2Model ----------------------------
(***************************************************************************)
(* A model of ikbalmed/telegram_courses: the reminder sweep of the student *)
(* bot (student_bot.py), the conversation wizards of both bots             *)
(* (student_bot.py, admin_bot.py) and the webhook server's lazy            *)
(* initialisation (main.py).                                               *)
(*                                                                         *)
(* Eight specifications share the module:                                   *)
(*   SpecSweep   check_subscriptions_and_send_reminders over the Students  *)
(*               sheet, run repeatedly while the days pass;                *)
(*   SpecSweepAdmin  the same sweep with the admin bot deleting a row      *)
(*               while the sweep awaits a send;                            *)
(*   SpecWizard  the /register, /add_student, /zoom, edit and add-subject  *)
(*               conversations over the spreadsheet;                       *)
(*   SpecSet     the /set conversation of the student bot in the groups;   *)
(*   SpecZoom    the /zoom conversation with its sends one by one;         *)
(*   SpecTasks   the two wizards together, each update in a task of its    *)
(*               own, the confirm handlers followed from await to await;   *)
(*   SpecMain    init_apps, the webhook handlers and /setup, from the      *)
(*               server's start on;                                        *)
(*   SpecPure    the helper functions that compute a result from their     *)
(*               arguments alone, called on bounded sets of arguments.     *)
(* Each specification holds the other subsystems' variables still.         *)
(***************************************************************************)
EXTENDS Integers, Sequences, FiniteSets, TLC

VARIABLES
    \* ---- the Students sheet as the sweep sees it ----
    cols,        \* which columns the header row has
    rows,        \* the data rows (sheet row k+1 is rows[k])
    today,       \* date.today(), in days
    \* ---- one run of check_subscriptions_and_send_reminders ----
    swPc,        \* "idle" | "run"
    swRows,      \* the rows the run read at its start
    swToday,     \* the today the run computed at its start
    swIdx,       \* the next row of swRows to evaluate
    swRaised,    \* the last run ended with an uncaught exception
    evaluated,   \* rows of the current / last run that reached the date checks
    swLast,      \* the loop's last iteration: its row, what it sent and wrote
    \* ---- what the sweep has sent for one row, any one ----
    watch,       \* the row whose messages are counted
    tenSent,     \* 10-day reminders delivered for it
    threeSent,   \* 3-day reminders delivered for it
    expirySent,  \* expiry notices delivered for it
    \* ---- main.py: the server's globals ----
    SETUP_KEY,     \* the configured secret of /setup ("" when unset)
    booted,        \* on_startup has run
    apps_ready,    \* the asyncio.Event
    lockHolder,    \* the init_apps call holding apps_init_lock (NoCall: free)
    lockWaiters,   \* the calls waiting for apps_init_lock, in order
    student_app,   \* the global: NoApp (None) or the application pair's number
    admin_app,
    \* ---- main.py: calls of init_apps, one per caller ----
    initPc,        \* where each call stands
    initApp,       \* the pair of applications the call built
    builds,        \* pairs of applications built so far
    sStarted,      \* pairs whose student application has been started
    aStarted,      \* pairs whose admin application has been started
    \* ---- main.py: HTTP requests ----
    reqKind,       \* "student" | "admin" | "setup"
    reqPc,         \* where each request's handler stands
    resp,          \* the status each request was answered with (0: not yet)
    reqKey,        \* the key parameter of each /setup request
    dispatchedTo,  \* the application each webhook update was handed to
    \* ---- Telegram's side of the webhooks ----
    webhookUrl,    \* the URL registered for each bot
    setCalls,      \* set_webhook calls made for each bot
    ensured,       \* the last _ensure_webhook call: what it saw, what it did
    \* ---- main.py: the loop's default executor and the warm-up ----
    executor,      \* the callables handed to run_in_executor, not yet called
    prewarmed,     \* calls the executor has made of each bot's prewarm_clients
    warmReads,     \* runs of each bot's warm-up read (_sync) so far
    \* ---- the conversations: the spreadsheet's other sheet ----
    channels,      \* Subjects_Channels: the keys in its column A
    \* ---- the student bot's conversations, for one student ----
    reg_state,     \* register_conv's state in each chat ("END": no conversation)
    addsub_state,  \* addsub_conv's state
    s_user_data,   \* the student's context.user_data
    \* ---- the admin bot's conversation, for one admin ----
    a_state,       \* conv_handler's state
    a_user_data,   \* the admin's context.user_data
    ADMIN_IDS,     \* the ids parsed from the environment when the bot starts
    a_api,         \* the handler of the last admin-bot update called the Sheets API
    relayed,       \* the ids an admin-bot handler has sent to through the student bot
    \* ---- what the conversations have just done ----
    last,          \* the last update handled: by which handler, with what
    reg_run,       \* the steps answered in each chat's current /register run
    add_run,       \* the steps answered in the current /add_student run
    tasks,         \* the tasks main.py has started for updates of a confirm button
    \* ---- the student bot's /set conversation, for one group admin ----
    links,         \* Subjects_Channels as /set reads it: its rows, key and group id
    set_state,     \* set_conv's state in each group ("END": no conversation)
    set_user_data, \* the group admin's context.user_data
    set_prompts,   \* the messages of each group that carry the confirm buttons
    \* ---- the admin bot's zoom_confirm, followed send by send ----
    STUDENT_BOT_TOKEN, \* the environment names the student bot's token
    zoom_run,      \* the handler's recipients, its sends so far and its counts
    \* ---- the helper functions, called on their own ----
    call           \* the last call: which function, its argument, its result

sweepVars == <<cols, rows, today, swPc, swRows, swToday, swIdx,
               swRaised, evaluated, swLast, watch, tenSent, threeSent,
               expirySent>>

mainVars == <<SETUP_KEY, booted, apps_ready, lockHolder, lockWaiters,
              student_app, admin_app, initPc, initApp, builds, sStarted,
              aStarted, reqKind, reqPc, resp, reqKey,
              dispatchedTo, webhookUrl, setCalls, ensured,
              executor, prewarmed, warmReads>>

prewarmVars == <<executor, prewarmed, warmReads>>

wizardVars == <<channels, reg_state, addsub_state, s_user_data, a_state,
                a_user_data, ADMIN_IDS, a_api, relayed, last, reg_run, add_run,
                tasks, links, set_state, set_user_data, set_prompts,
                STUDENT_BOT_TOKEN, zoom_run>>

pureVars == <<call>>

vars == <<sweepVars, mainVars, wizardVars, pureVars>>

\* What each subsystem leaves alone.  The conversations write the Students
\* sheet, and nothing else of the sweep's.
notSweep  == <<mainVars, wizardVars, pureVars>>
notMain   == <<sweepVars, wizardVars, pureVars>>
notConversations ==
             <<cols, today, swPc, swRows, swToday, swIdx, swRaised, evaluated,
               swLast, watch, tenSent, threeSent, expirySent, mainVars,
               pureVars>>
notWizard == <<notConversations, links, set_state, set_user_data, set_prompts,
               STUDENT_BOT_TOKEN, zoom_run>>
notPure   == <<sweepVars, mainVars, wizardVars>>

(***************************************************************************)
(* Bounds of the model.                                                    *)
(***************************************************************************)
MaxRows   == 2      \* data rows in the Students sheet
MaxDay    == 3      \* days that pass
MaxReq    == 2      \* HTTP requests the server receives
MaxLen    == 4      \* characters of a text made of the letters of LabelAlphabet
MaxTokens == 3      \* subjects in a typed list
MaxHeaders == 3     \* cells of a header row given to _header_index_alias
MaxTasks  == 2      \* confirm-button updates handled in one behaviour
MaxSweptRows == 3   \* data rows of a sheet swept while the admin deletes

(***************************************************************************)
(* Program constants of the sweep.                                         *)
(***************************************************************************)
TenLow    == 2
TenHigh   == 10
ThreeLow  == 0
ThreeHigh == 3


(***************************************************************************)
(* main.py: the server's state before on_startup, lines 17-34.             *)
(***************************************************************************)
Reqs    == 1..MaxReq
Startup == 0                      \* the init_apps task on_startup creates
Callers == {Startup} \cup Reqs    \* a request's init_apps call bears its number
NoCall  == 0 - 1
NoApp   == 0                      \* None
NotDispatched == 0 - 1
Bots    == {"student", "admin"}

NotEnsured == [bot |-> "none", info |-> "none", url |-> "none", calls |-> 0]

MainInit0 ==
    /\ booted = FALSE
    /\ apps_ready = FALSE
    /\ lockHolder = NoCall
    /\ lockWaiters = <<>>
    /\ student_app = NoApp
    /\ admin_app = NoApp
    /\ initPc = [c \in Callers |-> "none"]
    /\ initApp = [c \in Callers |-> NoApp]
    /\ builds = 0
    /\ sStarted = {}
    /\ aStarted = {}
    /\ reqKind = [r \in Reqs |-> "none"]
    /\ reqPc = [r \in Reqs |-> "new"]
    /\ resp = [r \in Reqs |-> 0]
    /\ dispatchedTo = [r \in Reqs |-> NotDispatched]
    /\ reqKey = [r \in Reqs |-> "absent"]
    /\ setCalls = [b \in Bots |-> 0]
    /\ ensured = NotEnsured
    /\ executor = <<>>
    /\ prewarmed = [b \in Bots |-> 0]
    /\ warmReads = [b \in Bots |-> 0]

\* The server's variables while another subsystem is looked at.
MainAtRest ==
    /\ MainInit0
    /\ SETUP_KEY = ""
    /\ webhookUrl = [b \in Bots |-> "old"]

(***************************************************************************)
(* Cells.  An End_Date cell is empty, a string that is not YYYY-MM-DD, or  *)
(* a date (a YYYY-MM-DD string or a serial number), kept as its day.       *)
(***************************************************************************)
EmptyEnd   == [k |-> "empty", d |-> 0]
BadEnd     == [k |-> "bad",   d |-> 0]
DateEnd(n) == [k |-> "date",  d |-> n]

\* str(v).strip().upper() of a Subscription cell (a boolean cell is read
\* UNFORMATTED as True/False) and of a typed niveau.
StrUpper(v) ==
    CASE v = "True"  -> "TRUE"
      [] v = "False" -> "FALSE"
      [] v = "3as"   -> "3AS"
      [] OTHER       -> v

_to_bool(v) == StrUpper(v) = "TRUE"

\* _safe_cell over a column that the header may lack (index -1).
_safe_cell(row, col, default) == IF cols[col] THEN row[col] ELSE default

AllCols == [ID |-> TRUE, End |-> TRUE, Sub |-> TRUE, Ten |-> TRUE, Three |-> TRUE]

\* The header rows the model starts from: complete, or lacking one column.
ColsChoices ==
    { AllCols,
      [AllCols EXCEPT !.Ten = FALSE],
      [AllCols EXCEPT !.Three = FALSE],
      [AllCols EXCEPT !.Sub = FALSE],
      [AllCols EXCEPT !.ID = FALSE],
      [AllCols EXCEPT !.End = FALSE] }

\* No iteration of the loop yet.  Of an iteration: the row it took (k), the
\* outcome of each send_message it awaited ("none": not called) and of each
\* values().update() it called.
NoIteration ==
    [k |-> 0, expiry |-> "none", subCell |-> "none",
     ten |-> "none", tenFlag |-> "none",
     three |-> "none", threeFlag |-> "none"]

Row(id, end, sub) ==
    [ID |-> id, End |-> end, Sub |-> sub, Ten |-> "FALSE", Three |-> "FALSE"]

\* The rows the initial sheet draws from (row k carries chat id k; id 0 is
\* an empty ID cell).  Appended rows start with both flags "FALSE".  With
\* today in 0..MaxDay the end days 2, 5 and 11 put days_left in -1..5 and
\* 8..11, on both sides of every threshold.
RowChoices(k) ==
    { Row(k, DateEnd(2), "TRUE"), Row(k, DateEnd(11), "True"),
      Row(k, DateEnd(5), "TRUE"),
      Row(k, DateEnd(2), "False"), Row(k, BadEnd, "TRUE"),
      Row(k, EmptyEnd, "TRUE"), Row(0, DateEnd(2), "TRUE") }

InitSheets ==
    UNION { { s \in [1..n -> UNION { RowChoices(k) : k \in 1..MaxRows }] :
                \A k \in 1..n : s[k] \in RowChoices(k) } : n \in 0..MaxRows }

(***************************************************************************)
(* The conversations' data before any update, student_bot.py 964-1332 and  *)
(* admin_bot.py 223-676.  A text is a string; an absent key of a dict      *)
(* reads as None, an absent list as the empty list.                        *)
(***************************************************************************)
None == "None"

\* The chats the student writes to the student bot in.  A conversation of
\* python-telegram-bot is kept per (chat, user), context.user_data per user;
\* /register has no chat filter (line 1367), and the bot is a member of the
\* subjects' groups.
Chats == {"private", "group"}
NoRow == 0          \* no 'edit_row_number'

\* context.user_data['reg'], student_bot.py 971: absent, or the dict.
NoReg ==
    [present |-> FALSE, name |-> None, phone |-> None, niveau |-> None,
     labels |-> <<>>, subjects |-> <<>>, speciality |-> None,
     payment |-> None, register_date |-> EmptyEnd, end_date |-> EmptyEnd,
     telegram_id |-> None]
EmptyReg == [NoReg EXCEPT !.present = TRUE]

\* context.user_data['addsub'], student_bot.py 1244-1248.
NoAddsub == [present |-> FALSE, niveau |-> None, current |-> <<>>, uid |-> None]

\* context.user_data['pending_student'], admin_bot.py 362-375.
NoPending ==
    [present |-> FALSE, phone |-> None, name |-> None, subjects |-> None,
     speciality |-> None, payment |-> None, telegram_id |-> None,
     register_date |-> EmptyEnd, end_date |-> EmptyEnd, niveau |-> None]

\* context.user_data['zoom'], admin_bot.py 536-612.
NoZoom ==
    [present |-> FALSE, niveau |-> None, subject |-> None, url |-> None,
     recipients |-> <<>>]

\* The admin's user_data after clear(), admin_bot.py 245.
ClearedUserData ==
    [niveau |-> None, new_flow |-> FALSE, adding_same_phone |-> FALSE,
     name |-> None, phone |-> None, telegram_id |-> None, subjects |-> None,
     speciality |-> None, payment |-> None, pending_student |-> NoPending,
     edit_row_number |-> NoRow, edit_column_index |-> None, zoom |-> NoZoom]

NoUpdate == [bot |-> "none", chat |-> "none", handler |-> "none", input |-> "none"]

\* No helper function has been called on its own.
NotCalled == [fn |-> "none"]

PureAtRest == call = NotCalled

\* update.effective_user.id of the person who writes to the admin bot, and
\* the id of somebody else.
AdminUser == "a1"
OtherUser == "a9"

\* The group the admin runs /set in; a group's chat id is written as its
\* name ("g2" is the id of another group).
Groups == {"g1"}

\* student_bot.py 794: the header row of Subjects_Channels.
LinksHeader == [key |-> "Subject", gid |-> "Telegram Group ID"]

\* context.user_data['pending_set'], student_bot.py 810-814: absent, or the
\* dict; target_row_index 0 is None.
NoPendingSet ==
    [present |-> FALSE, key_canonical |-> None, target_row_index |-> 0,
     chat_id_to_store |-> None]

\* The /set conversation of no group has begun.
SetAtRest ==
    /\ set_state = [g \in Groups |-> "END"]
    /\ set_user_data = [set_niveau |-> None, pending_set |-> NoPendingSet]
    /\ set_prompts = [g \in Groups |-> 0]

\* zoom_confirm is not running: no recipients, no send, both counts 0.
NoZoomRun ==
    [pc |-> "idle", data |-> "none", recipients |-> <<>>, attempted |-> <<>>,
     ok |-> 0, fail |-> 0]

WizardInit0 ==
    /\ SetAtRest
    /\ links = <<LinksHeader>>
    /\ STUDENT_BOT_TOKEN = TRUE
    /\ zoom_run = NoZoomRun
    /\ channels = {}
    /\ reg_state = [chat \in Chats |-> "END"]
    /\ addsub_state = "END"
    /\ s_user_data = [reg |-> NoReg, addsub |-> NoAddsub]
    /\ a_state = "END"
    /\ a_user_data = ClearedUserData
    /\ last = NoUpdate
    /\ reg_run = [chat \in Chats |-> <<>>]
    /\ add_run = <<>>     \* with "CONFIRM_ADD" for every row the run appended
    /\ a_api = FALSE
    /\ relayed = {}
    /\ tasks = <<>>

\* The conversations' variables while another subsystem is looked at.
WizardAtRest == WizardInit0 /\ ADMIN_IDS = {AdminUser}

\* The sweep's variables while another subsystem is looked at.
SweepAtRest ==
    /\ swLast = NoIteration
    /\ cols = AllCols
    /\ rows = <<>>
    /\ today = 0
    /\ swPc = "idle"
    /\ swRows = <<>>
    /\ swToday = 0
    /\ swIdx = 1
    /\ swRaised = FALSE
    /\ evaluated = {}
    /\ watch = 1
    /\ tenSent = 0
    /\ threeSent = 0
    /\ expirySent = 0

InitSweep ==
    /\ MainAtRest
    /\ WizardAtRest
    /\ PureAtRest
    /\ swLast = NoIteration
    /\ cols \in ColsChoices
    /\ rows \in InitSheets
    /\ today = 0
    /\ swPc = "idle"
    /\ swRows = <<>>
    /\ swToday = 0
    /\ swIdx = 1
    /\ swRaised = FALSE
    /\ evaluated = {}
    /\ watch \in (IF Len(rows) = 0 THEN {1} ELSE 1..Len(rows))
    /\ tenSent = 0
    /\ threeSent = 0
    /\ expirySent = 0

(***************************************************************************)
(* check_subscriptions_and_send_reminders, student_bot.py 396-501.         *)
(***************************************************************************)

\* Lines 405-406 and 415-421: the run goes on to the loop.
HeaderComplete == cols.ID /\ cols.End /\ cols.Sub

\* Lines 397-423: read the sheet, resolve the columns, take today.
SweepStart ==
    /\ swPc = "idle"
    /\ swRaised' = FALSE
    /\ evaluated' = {}
    /\ swLast' = NoIteration
    /\ IF Len(rows) = 0 \/ ~HeaderComplete
         THEN /\ swPc' = "idle"
              /\ swRows' = <<>>
              /\ UNCHANGED <<swToday, swIdx>>
         ELSE /\ swPc' = "run"
              /\ swRows' = rows
              /\ swToday' = today
              /\ swIdx' = 1
    /\ UNCHANGED <<cols, rows, today, watch, tenSent, threeSent, expirySent>>
    /\ UNCHANGED notSweep

\* The counts of messages tell none, one and more than one apart; they count
\* the messages of the watched row.
Count(k, n) == IF k = watch /\ n < 2 THEN n + 1 ELSE n

\* Lines 426-433: the rows the loop skips.
Skipped(row) == row.ID = 0 \/ row.End.k = "empty"

\* A window that has no lower end.
InTenWindow_NoLowerEnd(days_left) == days_left <= TenHigh

\* A 3-day window that ends a day early.
InThreeWindow_Short(days_left) == ThreeLow <= days_left /\ days_left < ThreeHigh

\* Line 470 and line 487: the threshold windows.
InTenWindow(days_left)   == TenLow <= days_left /\ days_left <= TenHigh
InThreeWindow(days_left) == ThreeLow <= days_left /\ days_left <= ThreeHigh

\* A reminder sent whether or not the header has its column.
HasColumn_Any(col) == TRUE

\* Line 470, ten_day_idx != -1, and line 487, three_day_idx != -1.
HasColumn(col) == cols[col]

\* The update called whether or not the send has succeeded.
FlagUpdateCalled_Regardless(msg) == msg # "none"

\* Lines 472-483 and 492-499: the update follows the send in the same try,
\* so it is called when send_message has returned.
FlagUpdateCalled(msg) == msg = "sent"

\* The outcome of a call made when `called`, which succeeds when `ok`.
Outcome(called, ok, done) ==
    IF ~called THEN "none" ELSE IF ok THEN done ELSE "failed"

\* A row of the grid below the last data row: every cell empty.
EmptyGridRow == [ID |-> 0, End |-> EmptyEnd, Sub |-> "", Ten |-> "", Three |-> ""]

\* values().update() of one cell of the sheet's row k + 1, lines 450-455,
\* 478-483 and 494-499.  The range names the row by its number; the grid
\* goes on below the last data row.
WriteCell(sheet, k, col, v) ==
    LET grid == sheet \o [i \in 1..(k - Len(sheet)) |-> EmptyGridRow]
    IN  [grid EXCEPT ![k][col] = v]

\* The loop's exit, or its end by an exception.
SweepAdvance(raised) ==
    /\ swRaised' = raised
    /\ swIdx' = swIdx + 1
    /\ swPc' = IF raised \/ swIdx = Len(swRows) THEN "idle" ELSE "run"

\* Lines 425-501: one iteration of the loop over the rows read at the start.
\* upOk / sendOk are whether the Sheets update and the send_message of each
\* branch succeed; every failure is caught and dropped (except: pass).
SweepRow ==
    /\ swPc = "run"
    /\ swIdx <= Len(swRows)
    /\ LET k   == swIdx
           row == swRows[k]
           it  == [NoIteration EXCEPT !.k = k]
       IN  IF Skipped(row)
             THEN /\ SweepAdvance(FALSE)
                  /\ swLast' = it
                  /\ UNCHANGED <<rows, evaluated, tenSent, threeSent,
                                 expirySent>>
           ELSE IF row.End.k = "bad"
             \* line 438: strptime raises ValueError outside any try
             THEN /\ SweepAdvance(TRUE)
                  /\ swLast' = it
                  /\ UNCHANGED <<rows, evaluated, tenSent, threeSent,
                                 expirySent>>
           ELSE
             LET end_dt     == row.End.d
                 sub_status == StrUpper(_safe_cell(row, "Sub", ""))
                 days_left  == end_dt - swToday
                 ten_sent   == IF cols.Ten THEN _to_bool(_safe_cell(row, "Ten", "FALSE")) ELSE FALSE
                 three_sent == IF cols.Three THEN _to_bool(_safe_cell(row, "Three", "FALSE")) ELSE FALSE
             IN  /\ evaluated' = evaluated \cup {k}
                 /\ SweepAdvance(FALSE)
                 /\ IF swToday > end_dt
                      THEN IF sub_status = "TRUE"
                             THEN \E upOk, sendOk \in BOOLEAN :
                                    /\ rows' = IF upOk
                                                 THEN WriteCell(rows, k, "Sub", "FALSE")
                                                 ELSE rows
                                    /\ expirySent' = IF sendOk
                                                       THEN Count(k, expirySent)
                                                       ELSE expirySent
                                    /\ swLast' = [it EXCEPT
                                           !.subCell = Outcome(TRUE, upOk, "written"),
                                           !.expiry = Outcome(TRUE, sendOk, "sent")]
                                    /\ UNCHANGED <<tenSent, threeSent>>
                             ELSE /\ swLast' = it
                                  /\ UNCHANGED <<rows, tenSent, threeSent,
                                                 expirySent>>
                    ELSE IF sub_status # "TRUE"
                      THEN /\ swLast' = it
                           /\ UNCHANGED <<rows, tenSent, threeSent, expirySent>>
                    ELSE
                      \E sendTen, upTen, sendThree, upThree \in BOOLEAN :
                        LET doTen     == InTenWindow(days_left) /\ ~ten_sent /\ HasColumn("Ten")
                            doThree   == InThreeWindow(days_left) /\ ~three_sent /\ HasColumn("Three")
                            ten       == Outcome(doTen, sendTen, "sent")
                            tenFlag   == Outcome(FlagUpdateCalled(ten), upTen, "written")
                            three     == Outcome(doThree, sendThree, "sent")
                            threeFlag == Outcome(FlagUpdateCalled(three), upThree, "written")
                            rows1     == IF tenFlag = "written"
                                           THEN WriteCell(rows, k, "Ten", "TRUE")
                                           ELSE rows
                        IN  /\ tenSent' = IF ten = "sent"
                                            THEN Count(k, tenSent)
                                            ELSE tenSent
                            /\ threeSent' = IF three = "sent"
                                              THEN Count(k, threeSent)
                                              ELSE threeSent
                            /\ rows' = IF threeFlag = "written"
                                         THEN WriteCell(rows1, k, "Three", "TRUE")
                                         ELSE rows1
                            /\ swLast' = [it EXCEPT !.ten = ten, !.tenFlag = tenFlag,
                                                    !.three = three,
                                                    !.threeFlag = threeFlag]
                            /\ UNCHANGED <<expirySent>>
    /\ UNCHANGED <<cols, today, swRows, swToday, watch>>
    /\ UNCHANGED notSweep

\* A day passes.  A run reads date.today() once, at its start (line 423), so
\* a day that passes during a run is a day that passes after it.
DayPasses ==
    /\ swPc = "idle"
    /\ today < MaxDay
    /\ today' = today + 1
    /\ UNCHANGED <<cols, rows, swPc, swRows, swToday, swIdx, swRaised,
                   evaluated, swLast, watch, tenSent, threeSent, expirySent>>
    /\ UNCHANGED notSweep

NextSweep == SweepStart \/ SweepRow \/ DayPasses

SpecSweep == InitSweep /\ [][NextSweep]_vars


(***************************************************************************)
(* main.py: init_apps, lines 48-69.  A call runs from one await to the     *)
(* next without interruption; the actions below are those stretches.       *)
(***************************************************************************)

\* Line 51: the check before the lock.
\* init_apps without the re-check of line 54.
SecondCheck_Dropped == FALSE

FirstCheck == apps_ready

\* Line 54: the check under the lock.
SecondCheck == apps_ready

\* asyncio.Lock.release, leaving the block of line 53 (by return or by an
\* exception): the lock is free and its first waiter is woken.
ReleaseLock == lockHolder' = NoCall

\* Lines 54-59, entered holding the lock: return if the applications are
\* ready, else build the pair (student_bot_main and admin_bot_main run to
\* their end without suspending) and go on to initialize it.
UnderLock(c) ==
    IF SecondCheck
      THEN /\ ReleaseLock
           /\ initPc' = [initPc EXCEPT ![c] = "returned"]
           /\ UNCHANGED <<builds, initApp>>
      ELSE /\ lockHolder' = c
           /\ builds' = builds + 1
           /\ initApp' = [initApp EXCEPT ![c] = builds + 1]
           /\ initPc' = [initPc EXCEPT ![c] = "initialize_s"]

\* Lines 51-59: the start of a call, up to its first suspension.  The lock is
\* taken at once when it is free and nobody waits for it (asyncio.Lock is
\* first come, first served).
InitEnter(c) ==
    IF FirstCheck
      THEN /\ initPc' = [initPc EXCEPT ![c] = "returned"]
           /\ UNCHANGED <<lockHolder, lockWaiters, builds, initApp>>
    ELSE IF lockHolder = NoCall /\ lockWaiters = <<>>
      THEN /\ UnderLock(c)
           /\ UNCHANGED lockWaiters
      ELSE /\ initPc' = [initPc EXCEPT ![c] = "waitlock"]
           /\ lockWaiters' = Append(lockWaiters, c)
           /\ UNCHANGED <<lockHolder, builds, initApp>>

\* What init_apps leaves alone before line 63.
InitFrame ==
    UNCHANGED <<SETUP_KEY, booted, apps_ready, student_app, admin_app,
                sStarted, aStarted, reqKind, reqPc, resp,
                dispatchedTo, webhookUrl, setCalls, reqKey, ensured>>

\* A task made by asyncio.create_task(init_apps()) starts to run.
InitTaskStart(c) ==
    /\ initPc[c] = "created"
    /\ InitEnter(c)
    /\ InitFrame
    /\ UNCHANGED prewarmVars
    /\ UNCHANGED notMain

\* Line 53: a waiting call gets the lock.
InitAcquire(c) ==
    /\ initPc[c] = "waitlock"
    /\ lockHolder = NoCall
    /\ lockWaiters # <<>>
    /\ Head(lockWaiters) = c
    /\ lockWaiters' = Tail(lockWaiters)
    /\ UnderLock(c)
    /\ InitFrame
    /\ UNCHANGED prewarmVars
    /\ UNCHANGED notMain

\* Lines 61 and 62: Application.initialize() asks Telegram for the bot's
\* identity; it returns, or raises (network error, bad token), and then the
\* exception leaves init_apps through the lock's block.
Initialize(c, from, to) ==
    /\ initPc[c] = from
    /\ \E ok \in BOOLEAN :
         IF ok
           THEN /\ initPc' = [initPc EXCEPT ![c] = to]
                /\ UNCHANGED lockHolder
           ELSE /\ initPc' = [initPc EXCEPT ![c] = "raised"]
                /\ ReleaseLock
    /\ UNCHANGED <<lockWaiters, builds, initApp>>
    /\ InitFrame
    /\ UNCHANGED prewarmVars
    /\ UNCHANGED notMain

InitializeS(c) == Initialize(c, "initialize_s", "initialize_a")
InitializeA(c) == Initialize(c, "initialize_a", "start_s")

\* Line 63: await s_app.start().
StartS(c) ==
    /\ initPc[c] = "start_s"
    /\ sStarted' = sStarted \cup {initApp[c]}
    /\ initPc' = [initPc EXCEPT ![c] = "start_a"]
    /\ UNCHANGED <<SETUP_KEY, booted, apps_ready, lockHolder,
                   lockWaiters, student_app, admin_app, initApp, builds,
                   aStarted, reqKind, reqPc, resp,
                   dispatchedTo, webhookUrl, setCalls, reqKey, ensured>>
    /\ UNCHANGED prewarmVars
    /\ UNCHANGED notMain

\* Lines 64-69: await a_app.start(), then publish the pair, set the event
\* and leave the lock's block.
StartA(c) ==
    /\ initPc[c] = "start_a"
    /\ aStarted' = aStarted \cup {initApp[c]}
    /\ student_app' = initApp[c]
    /\ admin_app' = initApp[c]
    /\ apps_ready' = TRUE
    /\ ReleaseLock
    /\ initPc' = [initPc EXCEPT ![c] = "returned"]
    /\ UNCHANGED <<SETUP_KEY, booted, lockWaiters, initApp, builds,
                   sStarted, reqKind, reqPc, resp,
                   dispatchedTo, webhookUrl, setCalls, reqKey, ensured>>
    /\ UNCHANGED prewarmVars
    /\ UNCHANGED notMain

(***************************************************************************)
(* main.py: on_startup, lines 133-140.                                     *)
(***************************************************************************)

\* Lines 137-138, 104-105 and 123-124: loop.run_in_executor(None, f) hands
\* the callable f to the default executor, first the student bot's
\* prewarm_clients, then the admin bot's.
SubmitPrewarm ==
    /\ executor' = executor \o <<"student", "admin">>
    /\ UNCHANGED <<prewarmed, warmReads>>

\* A thread of the executor calls the next callable, with no arguments.
\* prewarm_clients is a coroutine function (student_bot.py 1411, admin_bot.py
\* 735, 'async def'): the call makes a coroutine object and returns it as the
\* job's result; nothing awaits it, so its body, the _sync of lines 1416-1426
\* (739-756) with the Sheets read, does not run.
BodyRuns == FALSE

ExecutorRun ==
    /\ executor # <<>>
    /\ LET b == Head(executor)
       IN  /\ executor' = Tail(executor)
           /\ prewarmed' = [prewarmed EXCEPT ![b] = @ + 1]
           /\ warmReads' = IF BodyRuns THEN [warmReads EXCEPT ![b] = @ + 1]
                                       ELSE warmReads
    /\ UNCHANGED <<SETUP_KEY, booted, apps_ready, lockHolder, lockWaiters,
                   student_app, admin_app, initPc, initApp, builds, sStarted,
                   aStarted, reqKind, reqPc, resp, reqKey, dispatchedTo,
                   webhookUrl, setCalls, ensured>>
    /\ UNCHANGED notMain

\* Lines 133-140: the init task is created; the server then takes requests.
OnStartup ==
    /\ ~booted
    /\ booted' = TRUE
    /\ initPc' = [initPc EXCEPT ![Startup] = "created"]
    /\ SubmitPrewarm
    /\ UNCHANGED <<SETUP_KEY, apps_ready, lockHolder, lockWaiters,
                   student_app, admin_app, initApp, builds, sStarted, aStarted,
                   reqKind, reqPc, resp, dispatchedTo,
                   webhookUrl, setCalls, reqKey, ensured>>
    /\ UNCHANGED notMain

(***************************************************************************)
(* main.py: handle_student and handle_admin, lines 89-131.                 *)
(***************************************************************************)

\* Requests are numbered in the order they arrive.
Arrives(r) ==
    /\ booted
    /\ reqPc[r] = "new"
    /\ \A q \in Reqs : q < r => reqPc[q] # "new"

\* A handler that dispatches without looking at apps_ready.
SeesReady_Always == TRUE

\* Lines 99 and 120: whether the handler goes straight to the dispatch.
SeesReady == apps_ready

\* Lines 111 and 130: the application the update is handed to.
AppOf(bot) == IF bot = "student" THEN student_app ELSE admin_app

\* Lines 111-112 and 130-131: hand the update over and answer OK.
Dispatch(r, bot) ==
    /\ dispatchedTo' = [dispatchedTo EXCEPT ![r] = AppOf(bot)]
    /\ resp' = [resp EXCEPT ![r] = 200]
    /\ reqPc' = [reqPc EXCEPT ![r] = "done"]

\* Lines 93-112 / 114-131, up to the wait of lines 107 / 126.
WebhookArrive(r, bot, jsonOk) ==
    /\ Arrives(r)
    /\ reqKind' = [reqKind EXCEPT ![r] = bot]
    /\ IF ~jsonOk
         THEN /\ resp' = [resp EXCEPT ![r] = 400]
              /\ reqPc' = [reqPc EXCEPT ![r] = "done"]
              /\ UNCHANGED <<dispatchedTo, initPc, prewarmVars>>
       ELSE IF SeesReady
         THEN /\ Dispatch(r, bot)
              /\ UNCHANGED <<initPc, prewarmVars>>
         ELSE /\ initPc' = [initPc EXCEPT ![r] = "created"]
              /\ SubmitPrewarm
              /\ reqPc' = [reqPc EXCEPT ![r] = "wait"]
              /\ UNCHANGED <<resp, dispatchedTo>>
    /\ UNCHANGED <<SETUP_KEY, booted, apps_ready, lockHolder,
                   lockWaiters, student_app, admin_app, initApp, builds,
                   sStarted, aStarted, webhookUrl, setCalls, reqKey, ensured>>
    /\ UNCHANGED notMain

\* What the rest of a webhook handler leaves alone.
WebhookFrame ==
    UNCHANGED <<SETUP_KEY, booted, apps_ready, lockHolder, lockWaiters,
                student_app, admin_app, initPc, initApp, builds, sStarted,
                aStarted, reqKind, webhookUrl, setCalls, reqKey, ensured>>

\* Lines 107 / 126: apps_ready.wait() returns within the 8 seconds.
WebhookWake(r) ==
    /\ reqPc[r] = "wait"
    /\ apps_ready
    /\ Dispatch(r, reqKind[r])
    /\ WebhookFrame
    /\ UNCHANGED prewarmVars
    /\ UNCHANGED notMain

\* Lines 108-109 / 127-128: the 8 seconds pass first.
WebhookTimeout(r) ==
    /\ reqPc[r] = "wait"
    /\ ~apps_ready
    /\ resp' = [resp EXCEPT ![r] = 503]
    /\ reqPc' = [reqPc EXCEPT ![r] = "done"]
    /\ UNCHANGED dispatchedTo
    /\ WebhookFrame
    /\ UNCHANGED prewarmVars
    /\ UNCHANGED notMain

(***************************************************************************)
(* main.py: _ensure_webhook, lines 36-46, and handle_setup, lines 74-87.   *)
(***************************************************************************)

\* The URL this server wants registered, f"{PUBLIC_URL}{PATH}", and one it
\* does not (an earlier deployment's).
WantUrl == "want"
Urls    == {"want", "old"}

\* The query's key parameter: absent (None), the secret, another.
Keys      == {"absent", "k1", "k2"}
SetupKeys == {"", "k1"}

\* handle_setup without the comparison of line 81.
KeyMatches_Any(key) == TRUE

\* _ensure_webhook without the comparison of line 40.
AlreadySet_Never(url, want_url) == FALSE

\* Line 79.
KeyConfigured == SETUP_KEY # ""

\* Line 81.
KeyMatches(key) == key = SETUP_KEY

\* Line 40: info and info.url == want_url.
AlreadySet(url, want_url) == url = want_url

\* Lines 36-46 for one bot.  info is how get_webhook_info ends: "ok" (it
\* reports the registered URL), "telegram_error" or "other_error"; setOk is
\* whether set_webhook returns.  raised tells whether an exception leaves
\* the function.
EnsureWebhook(bot, info, setOk, raised) ==
    LET saw(n) == [bot |-> bot, info |-> info, url |-> webhookUrl[bot], calls |-> n]
    IN  IF info = "other_error"
          THEN /\ raised
               /\ ensured' = saw(0)
               /\ UNCHANGED <<webhookUrl, setCalls>>
        ELSE IF info = "ok" /\ AlreadySet(webhookUrl[bot], WantUrl)
          THEN /\ ~raised
               /\ ensured' = saw(0)
               /\ UNCHANGED <<webhookUrl, setCalls>>
          ELSE /\ setCalls' = [setCalls EXCEPT ![bot] = @ + 1]
               /\ ensured' = saw(1)
               /\ webhookUrl' = IF setOk THEN [webhookUrl EXCEPT ![bot] = WantUrl]
                                          ELSE webhookUrl
               /\ raised = ~setOk

InfoEnds == {"ok", "telegram_error", "other_error"}

\* Lines 74-84, up to the first suspension of init_apps.
SetupArrive(r, key) ==
    /\ Arrives(r)
    /\ reqKind' = [reqKind EXCEPT ![r] = "setup"]
    /\ reqKey' = [reqKey EXCEPT ![r] = key]
    /\ IF ~KeyConfigured
         THEN /\ resp' = [resp EXCEPT ![r] = 400]
              /\ reqPc' = [reqPc EXCEPT ![r] = "done"]
              /\ UNCHANGED <<initPc, lockHolder, lockWaiters, builds, initApp>>
       ELSE IF ~KeyMatches(key)
         THEN /\ resp' = [resp EXCEPT ![r] = 403]
              /\ reqPc' = [reqPc EXCEPT ![r] = "done"]
              /\ UNCHANGED <<initPc, lockHolder, lockWaiters, builds, initApp>>
         ELSE /\ InitEnter(r)
              /\ reqPc' = [reqPc EXCEPT ![r] = "setup_init"]
              /\ UNCHANGED resp
    /\ UNCHANGED <<SETUP_KEY, booted, apps_ready, student_app,
                   admin_app, sStarted, aStarted, dispatchedTo, webhookUrl,
                   setCalls, ensured>>
    /\ UNCHANGED prewarmVars
    /\ UNCHANGED notMain

\* What the rest of handle_setup leaves alone.
SetupFrame ==
    UNCHANGED <<SETUP_KEY, booted, apps_ready, lockHolder, lockWaiters,
                student_app, admin_app, initPc, initApp, builds, sStarted,
                aStarted, reqKind, reqKey, dispatchedTo>>

\* Line 84: init_apps raised, and the exception leaves the handler
\* (aiohttp answers 500).
SetupInitRaised(r) ==
    /\ reqPc[r] = "setup_init"
    /\ initPc[r] = "raised"
    /\ resp' = [resp EXCEPT ![r] = 500]
    /\ reqPc' = [reqPc EXCEPT ![r] = "done"]
    /\ UNCHANGED <<webhookUrl, setCalls, ensured>>
    /\ SetupFrame
    /\ UNCHANGED prewarmVars
    /\ UNCHANGED notMain

\* Lines 84-85: init_apps returned; the student bot's webhook.
SetupStudent(r) ==
    /\ reqPc[r] = "setup_init"
    /\ initPc[r] = "returned"
    /\ \E info \in InfoEnds, setOk, raised \in BOOLEAN :
         /\ EnsureWebhook("student", info, setOk, raised)
         /\ resp' = IF raised THEN [resp EXCEPT ![r] = 500] ELSE resp
         /\ reqPc' = [reqPc EXCEPT ![r] = IF raised THEN "done" ELSE "setup_admin"]
    /\ SetupFrame
    /\ UNCHANGED prewarmVars
    /\ UNCHANGED notMain

\* Lines 86-87: the admin bot's webhook, and the answer.
SetupAdmin(r) ==
    /\ reqPc[r] = "setup_admin"
    /\ \E info \in InfoEnds, setOk, raised \in BOOLEAN :
         /\ EnsureWebhook("admin", info, setOk, raised)
         /\ resp' = [resp EXCEPT ![r] = IF raised THEN 500 ELSE 200]
         /\ reqPc' = [reqPc EXCEPT ![r] = "done"]
    /\ SetupFrame
    /\ UNCHANGED prewarmVars
    /\ UNCHANGED notMain

InitMain ==
    /\ MainInit0
    /\ SETUP_KEY \in SetupKeys
    /\ \E u \in Urls : webhookUrl = [b \in Bots |-> u]
    /\ SweepAtRest
    /\ WizardAtRest
    /\ PureAtRest

NextMain ==
    \/ OnStartup
    \/ ExecutorRun
    \/ \E c \in Callers : InitTaskStart(c)
    \/ \E c \in Callers : InitAcquire(c)
    \/ \E c \in Callers : InitializeS(c)
    \/ \E c \in Callers : InitializeA(c)
    \/ \E c \in Callers : StartS(c)
    \/ \E c \in Callers : StartA(c)
    \/ \E r \in Reqs, bot \in Bots, jsonOk \in BOOLEAN : WebhookArrive(r, bot, jsonOk)
    \/ \E r \in Reqs : WebhookWake(r)
    \/ \E r \in Reqs : WebhookTimeout(r)
    \/ \E r \in Reqs, key \in Keys : SetupArrive(r, key)
    \/ \E r \in Reqs : SetupInitRaised(r)
    \/ \E r \in Reqs : SetupStudent(r)
    \/ \E r \in Reqs : SetupAdmin(r)

SpecMain == InitMain /\ [][NextMain]_vars


(***************************************************************************)
(* student_bot.py: texts and the subject labels, lines 71, 92-130 and      *)
(* 298-392.  A text the user types is a string; Tokens gives its words and *)
(* separator characters, which is what the parsing code looks at.          *)
(***************************************************************************)
Uid == "s1"     \* str(update.effective_user.id) of the student

ALLOWED_NIVEAUX == {"3AS", "2AS", "1AS", "4AM", "3AM", "2AM", "1AM"}

ALLOWED_LABELS == {"Francais", "Anglais", "Science", "Math", "Physique",
                   "Histoire Geo"}

LABEL_TO_UNDERLYING ==
    ("Francais" :> <<"French">>) @@ ("Anglais" :> <<"English">>) @@
    ("Physique" :> <<"Physic">>) @@ ("Math" :> <<"Math">>) @@
    ("Science" :> <<"Science">>) @@
    ("Histoire Geo" :> <<"History", "Geography">>)

\* A text, where the code looks inside it, is the sequence of its characters.
\* A character outside ASCII is written by its name ("e_acute", "rsquo" for
\* the right single quotation mark, "ar_alef").  Chars gives the characters
\* of the words the conversations of the model are sent.
Chars(raw) ==
    CASE raw = "" -> <<>>
      [] raw = "Math, maths" -> <<"M", "a", "t", "h", ",", " ", "m", "a", "t", "h", "s">>
      [] raw = "Math; maths" -> <<"M", "a", "t", "h", ";", " ", "m", "a", "t", "h", "s">>
      [] raw = "Math" -> <<"M", "a", "t", "h">>
      [] raw = "maths" -> <<"m", "a", "t", "h", "s">>
      [] raw = "Mathh" -> <<"M", "a", "t", "h", "h">>
      [] raw = "Chimie" -> <<"C", "h", "i", "m", "i", "e">>
      [] raw = "Histoire Geo" -> <<"H", "i", "s", "t", "o", "i", "r", "e", " ", "G", "e", "o">>
      [] raw = "Francais" -> <<"F", "r", "a", "n", "c", "a", "i", "s">>
      [] raw = "Anglais" -> <<"A", "n", "g", "l", "a", "i", "s">>
      [] raw = "Science" -> <<"S", "c", "i", "e", "n", "c", "e">>
      [] raw = "Physique" -> <<"P", "h", "y", "s", "i", "q", "u", "e">>

Whitespace == {" ", "\t", "\n"}

\* str.lower(), character by character.
LowerChar(c) ==
    LET upper == ("A" :> "a") @@ ("B" :> "b") @@ ("C" :> "c") @@ ("D" :> "d") @@
                 ("E" :> "e") @@ ("F" :> "f") @@ ("G" :> "g") @@ ("H" :> "h") @@
                 ("I" :> "i") @@ ("J" :> "j") @@ ("K" :> "k") @@ ("L" :> "l") @@
                 ("M" :> "m") @@ ("N" :> "n") @@ ("O" :> "o") @@ ("P" :> "p") @@
                 ("Q" :> "q") @@ ("R" :> "r") @@ ("S" :> "s") @@ ("T" :> "t") @@
                 ("U" :> "u") @@ ("V" :> "v") @@ ("W" :> "w") @@ ("X" :> "x") @@
                 ("Y" :> "y") @@ ("Z" :> "z") @@ ("E_acute" :> "e_acute") @@
                 ("C_cedilla" :> "c_cedilla")
    IN  IF c \in DOMAIN upper THEN upper[c] ELSE c

lower(t) == [i \in 1..Len(t) |-> LowerChar(t[i])]

\* str.strip(): the text without its leading and trailing whitespace.
RECURSIVE lstrip(_)
lstrip(t) ==
    IF t # <<>> /\ Head(t) \in Whitespace THEN lstrip(Tail(t)) ELSE t

RECURSIVE rstrip(_)
rstrip(t) ==
    IF t # <<>> /\ t[Len(t)] \in Whitespace
      THEN rstrip(SubSeq(t, 1, Len(t) - 1)) ELSE t

strip(t) == rstrip(lstrip(t))

\* str.replace(old, new) for one character.
ReplaceChar(t, old, new) == [i \in 1..Len(t) |-> IF t[i] = old THEN new ELSE t[i]]

\* p in t: p is a substring of t.
Contains(t, p) ==
    \E i \in 1..(Len(t) - Len(p) + 1) : SubSeq(t, i, i + Len(p) - 1) = p

\* Lines 319-336.
SYN_TO_LABEL ==
    (<<"e", "n", "g", "l", "i", "s", "h">> :> "Anglais") @@
    (<<"a", "n", "g", "l", "a", "i", "s">> :> "Anglais") @@
    (<<"e", "n", "g", "l", "i", "c", "h">> :> "Anglais") @@
    (<<"i", "n", "g", "l", "i", "s", "h">> :> "Anglais") @@
    (<<"a", "n", "g">> :> "Anglais") @@
    (<<"ar_alef", "ar_noon", "ar_jeem", "ar_lam", "ar_yeh", "ar_zain", "ar_yeh">> :> "Anglais") @@
    (<<"ar_alef", "ar_noon", "ar_jeem", "ar_lam", "ar_yeh", "ar_zain", "ar_yeh", "ar_teh_marbuta">> :> "Anglais") @@
    (<<"f", "r", "e", "n", "c", "h">> :> "Francais") @@
    (<<"f", "r", "a", "n", "c", "a", "i", "s">> :> "Francais") @@
    (<<"f", "r", "a", "n", "c_cedilla", "a", "i", "s">> :> "Francais") @@
    (<<"f", "r", "a", "n", "c", "a", "i", "s", "'">> :> "Francais") @@
    (<<"ar_feh", "ar_reh", "ar_noon", "ar_seen", "ar_yeh", "ar_teh_marbuta">> :> "Francais") @@
    (<<"p", "h", "y", "s", "i", "c">> :> "Physique") @@
    (<<"p", "h", "y", "s", "i", "c", "s">> :> "Physique") @@
    (<<"p", "h", "y", "s", "i", "q", "u", "e">> :> "Physique") @@
    (<<"ar_feh", "ar_yeh", "ar_zain", "ar_yeh", "ar_alef", "ar_hamza">> :> "Physique") @@
    (<<"m", "a", "t", "h">> :> "Math") @@
    (<<"m", "a", "t", "h", "s">> :> "Math") @@
    (<<"m", "a", "t", "h", "e", "m", "a", "t", "i", "q", "u", "e", "s">> :> "Math") @@
    (<<"m", "a", "t", "h", "e", "m", "a", "t", "i", "q", "u", "e">> :> "Math") @@
    (<<"m", "a", "t">> :> "Math") @@
    (<<"ar_reh", "ar_yeh", "ar_alef", "ar_dad", "ar_yeh", "ar_alef", "ar_teh">> :> "Math") @@
    (<<"s", "c", "i", "e", "n", "c", "e">> :> "Science") @@
    (<<"s", "c", "i", "e", "n", "c", "e", "s">> :> "Science") @@
    (<<"s", "c", "i">> :> "Science") @@
    (<<"ar_ain", "ar_lam", "ar_waw", "ar_meem">> :> "Science")

\* The words and separators of a typed text.
Tokens(raw) ==
    CASE raw = "Math, maths"         -> <<"Math", ",", "maths">>
      [] raw = "Math; maths"         -> <<"Math", ";", "maths">>
      [] raw = "Math,"               -> <<"Math", ",">>
      [] OTHER                       -> <<raw>>

\* str.lower() of a word of the model.
StrLower(w) ==
    CASE w = "Math"         -> "math"
      [] w = "Mathh"        -> "mathh"
      [] w = "Chimie"       -> "chimie"
      [] w = "Histoire Geo" -> "histoire geo"
      [] w = "3AS"          -> "3as"
      [] OTHER              -> w

\* re.sub(r"\s+", "", t)
NoSpace(t) == SelectSeq(t, LAMBDA c : c \notin Whitespace)

\* re.sub(r"\s+", "_", t) of a word of the model.
Underscore(t) ==
    CASE t = "Histoire Geo" -> "Histoire_Geo"
      [] OTHER -> t

\* Lines 103-114, 121 and 125: the characters and words that are not the
\* ASCII comma but look like a separator.
Forbidden == {";", "|", "/", "\\", ":", " and ", "\n"}

\* Lines 92-130: an error message (TRUE) when the text holds one of them.
_detect_bad_separators(raw) ==
    \E i \in 1..Len(Tokens(raw)) : Tokens(raw)[i] \in Forbidden

RECURSIVE SplitFrom(_, _, _)
SplitFrom(toks, i, cur) ==
    IF i > Len(toks) THEN <<cur>>
    ELSE IF toks[i] = "," THEN <<cur>> \o SplitFrom(toks, i + 1, "")
    ELSE SplitFrom(toks, i + 1, toks[i])

\* [s.strip() for s in raw.split(",")]: the parts between the commas, ""
\* where two commas, or a comma and an end of the text, are adjacent.
Split(toks) == SplitFrom(toks, 1, "")

RECURSIVE JoinFrom(_, _)
JoinFrom(list, i) ==
    IF i > Len(list) THEN <<>>
    ELSE IF i = Len(list) THEN <<list[i]>>
    ELSE <<list[i], ",">> \o JoinFrom(list, i + 1)

\* ", ".join(list), as the tokens of the text it makes.
Join(list) == JoinFrom(list, 1)

\* [s for s in parts if s]
NonEmpty(parts) == SelectSeq(parts, LAMBDA s : s # "")

\* Lines 341-345: the patterns with their blanks removed, p.replace(" ", "").
HistoireGeoPatterns ==
    {<<"h", "i", "s", "t", "o", "i", "r", "e", "g", "e", "o">>,
     <<"h", "i", "s", "t", "o", "i", "r", "e", "-", "g", "e", "o">>,
     <<"h", "i", "s", "t", "o", "i", "r", "e", "g", "e_acute", "o", "g", "r", "a", "p", "h", "i", "e">>,
     <<"h", "i", "s", "t", "o", "i", "r", "e", "e", "t", "g", "e", "o">>,
     <<"h", "i", "s", "t", "o", "r", "y", "g", "e", "o">>,
     <<"h", "i", "s", "t", "o", "r", "y", "g", "e", "o", "g", "r", "a", "p", "h", "y">>,
     <<"h", "i", "s", "t", "o", "r", "y", "&", "g", "e", "o", "g", "r", "a", "p", "h", "y">>,
     <<"h", "i", "s", "t", "o", "i", "r", "e", "e", "t", "g", "e_acute", "o">>,
     <<"g", "e", "o", "h", "i", "s", "t", "o", "i", "r", "e">>,
     <<"h", "i", "s", "t", "o", "i", "r", "e", "&", "g", "e", "o">>}

\* Lines 338-351.
_looks_like_histoire_geo(text) ==
    LET t         == strip(lower(text))
        t_nospace == NoSpace(t)
        geo       == <<"g", "e", "o">>
    IN  \/ \E pat \in HistoireGeoPatterns : Contains(t_nospace, pat)
        \/ Contains(t, <<"h", "i", "s", "t", "o", "i", "r", "e">>) /\ Contains(t, geo)
        \/ Contains(t, <<"h", "i", "s", "t", "o", "r", "y">>) /\ Contains(t, geo)

\* difflib.SequenceMatcher: the length of the common run of a from i and b
\* from j, inside a[..ahi] and b[..bhi].
RECURSIVE MatchLen(_, _, _, _, _, _)
MatchLen(a, b, i, j, ahi, bhi) ==
    IF i <= ahi /\ j <= bhi /\ a[i] = b[j]
      THEN 1 + MatchLen(a, b, i + 1, j + 1, ahi, bhi)
      ELSE 0

\* SequenceMatcher.find_longest_match (no junk): the longest common block of
\* a[alo..ahi] and b[blo..bhi]; of the longest ones the one that starts
\* earliest in a, and of those the one that starts earliest in b.
find_longest_match(a, b, alo, ahi, blo, bhi) ==
    LET cand   == (alo..ahi) \X (blo..bhi)
        len(p) == MatchLen(a, b, p[1], p[2], ahi, bhi)
        sizes  == {len(p) : p \in cand} \cup {0}
        best   == CHOOSE k \in sizes : \A m \in sizes : m <= k
        starts == {p \in cand : len(p) = best}
        i0     == CHOOSE i \in {p[1] : p \in starts} :
                      \A p \in starts : i <= p[1]
        j0     == CHOOSE j \in {p[2] : p \in {q \in starts : q[1] = i0}} :
                      \A p \in {q \in starts : q[1] = i0} : j <= p[2]
    IN  IF best = 0 THEN [i |-> alo, j |-> blo, size |-> 0]
        ELSE [i |-> i0, j |-> j0, size |-> best]

\* SequenceMatcher.get_matching_blocks: the number of matched characters,
\* the longest block m first and then the pieces left and right of it.
RECURSIVE Matched(_, _, _, _, _, _)
MatchedAround(a, b, alo, ahi, blo, bhi, m) ==
    IF m.size = 0 THEN 0
    ELSE m.size
         + Matched(a, b, alo, m.i - 1, blo, m.j - 1)
         + Matched(a, b, m.i + m.size, ahi, m.j + m.size, bhi)

Matched(a, b, alo, ahi, blo, bhi) ==
    IF alo > ahi \/ blo > bhi THEN 0
    ELSE MatchedAround(a, b, alo, ahi, blo, bhi,
                       find_longest_match(a, b, alo, ahi, blo, bhi))

\* The order of the labels as Python compares strings.
LabelRank ==
    ("Anglais" :> 1) @@ ("Francais" :> 2) @@ ("Histoire Geo" :> 3) @@
    ("Math" :> 4) @@ ("Physique" :> 5) @@ ("Science" :> 6)

\* SequenceMatcher.ratio() of a label and the word is 2*M/T; Score gives M
\* and T.
Score(label, word) ==
    [M |-> Matched(Chars(label), word, 1, Len(Chars(label)), 1, Len(word)),
     T |-> Len(Chars(label)) + Len(word)]

\* ratio() >= 0.75
WithinCutoff(sc) == 8 * sc.M >= 3 * sc.T

\* difflib.get_close_matches(txt, ALLOWED_LABELS, n=1, cutoff=0.75): the label
\* of the highest ratio among those within the cutoff (of equal ratios the
\* greater string), None when there is none.
BestMatch(scores) ==
    LET close == {x \in ALLOWED_LABELS : WithinCutoff(scores[x])}
        Better(x, y) ==
            \/ scores[x].M * scores[y].T > scores[y].M * scores[x].T
            \/ /\ scores[x].M * scores[y].T = scores[y].M * scores[x].T
               /\ LabelRank[x] >= LabelRank[y]
    IN  IF close = {} THEN None
        ELSE CHOOSE x \in close : \A y \in close : Better(x, y)

get_close_matches(word) == BestMatch([x \in ALLOWED_LABELS |-> Score(x, word)])

\* Lines 375-379: the close match, when there is one.
FuzzyLabel(match) ==
    IF match # None THEN [label |-> match, reason |-> "fuzzy"]
    ELSE [label |-> None, reason |-> None]

\* _label_from_input with the fuzzy match tried before the dictionary.
_label_from_input_FuzzyFirst(raw) ==
    LET txt          == strip(raw)
        base         == strip(ReplaceChar(lower(txt), "rsquo", "'"))
        base_compact == NoSpace(base)
    IN  IF txt = <<>> THEN [label |-> None, reason |-> None]
        ELSE IF _looks_like_histoire_geo(txt)
          THEN [label |-> "Histoire Geo", reason |-> "combo"]
        ELSE IF get_close_matches(txt) # None
          THEN [label |-> get_close_matches(txt), reason |-> "fuzzy"]
        ELSE IF base \in DOMAIN SYN_TO_LABEL
          THEN [label |-> SYN_TO_LABEL[base], reason |-> "synonym"]
        ELSE IF base_compact \in DOMAIN SYN_TO_LABEL
          THEN [label |-> SYN_TO_LABEL[base_compact], reason |-> "synonym"]
        ELSE [label |-> None, reason |-> None]

\* Lines 353-379.
_label_from_input(raw) ==
    LET txt          == strip(raw)
        base         == strip(ReplaceChar(lower(txt), "rsquo", "'"))
        base_compact == NoSpace(base)
    IN  IF txt = <<>> THEN [label |-> None, reason |-> None]
        ELSE IF _looks_like_histoire_geo(txt)
          THEN [label |-> "Histoire Geo", reason |-> "combo"]
        ELSE IF base \in DOMAIN SYN_TO_LABEL
          THEN [label |-> SYN_TO_LABEL[base], reason |-> "synonym"]
        ELSE IF base_compact \in DOMAIN SYN_TO_LABEL
          THEN [label |-> SYN_TO_LABEL[base_compact], reason |-> "synonym"]
        ELSE FuzzyLabel(get_close_matches(txt))

\* _validate_and_map_labels without the test 'label not in labels_ok'.
Dedup_Kept(list) == list

RECURSIVE Dedup(_)
Dedup(list) ==
    IF list = <<>> THEN <<>>
    ELSE LET front == Dedup(SubSeq(list, 1, Len(list) - 1))
             x     == list[Len(list)]
         IN  IF \E i \in 1..Len(front) : front[i] = x
               THEN front ELSE Append(front, x)

\* Line 1026: label and label in ALLOWED_LABELS.
LabelOk(label) == label # None /\ label \in ALLOWED_LABELS

\* Lines 1024-1038 with the label found for each token of the list.
MapLabels(input_list, labels) ==
    LET idx  == [i \in 1..Len(input_list) |-> i]
        good == SelectSeq(idx, LAMBDA i : LabelOk(labels[i]))
        bad  == SelectSeq(idx, LAMBDA i : ~LabelOk(labels[i]))
    IN  [labels_ok |-> Dedup([k \in 1..Len(good) |-> labels[good[k]]]),
         invalid   |-> [k \in 1..Len(bad) |-> input_list[bad[k]]]]

\* Lines 1013-1038, without the notes of the reply's wording.
_validate_and_map_labels(input_list) ==
    MapLabels(input_list,
              [i \in 1..Len(input_list) |-> _label_from_input(input_list[i]).label])

RECURSIVE Flatten(_)
Flatten(lists) ==
    IF lists = <<>> THEN <<>> ELSE Head(lists) \o Flatten(Tail(lists))

\* Lines 381-392.
_underlying_for_labels(labels) ==
    Dedup(Flatten([i \in 1..Len(labels) |-> LABEL_TO_UNDERLYING[labels[i]]]))

(***************************************************************************)
(* student_bot.py: the spreadsheet helpers, lines 231-296 and 947-962.     *)
(***************************************************************************)

\* A row of Students as the conversations append it, columns A to L.
StudentRow(phone, name, subjects, speciality, payment, id, reg, end, niveau) ==
    [Phone |-> phone, Name |-> name, Subjects |-> subjects,
     Speciality |-> speciality, Payment |-> payment, ID |-> id,
     Reg |-> reg, End |-> end, Sub |-> "TRUE", Ten |-> "FALSE",
     Three |-> "FALSE", Niveau |-> niveau]

\* dict.get(key, ''), for a text.
GetOr(v, default) == IF v = None THEN default ELSE v

\* Lines 231-252: the number of the first row with this ID, 0 for none.
_find_student_row_by_id(student_id) ==
    IF Len(rows) = 0 \/ ~cols.ID THEN 0
    ELSE IF \E k \in 1..Len(rows) : rows[k].ID = student_id
      THEN CHOOSE k \in 1..Len(rows) :
               /\ rows[k].ID = student_id
               /\ \A j \in 1..(k - 1) : rows[j].ID # student_id
    ELSE 0

\* An existence check that finds nobody.
_student_exists_by_id_Never(telegram_id) == FALSE

\* Line 944.
_student_exists_by_id(telegram_id) == _find_student_row_by_id(telegram_id) # 0

\* Lines 269-271.
_key_for(niveau, subject) == <<niveau, Underscore(subject)>>

\* Lines 274-296: Subjects_Channels after the call.
ensure_subject_channels_rows(niveau, subjects) ==
    channels \cup {_key_for(niveau, subjects[i]) : i \in 1..Len(subjects)}

\* Lines 947-962.
_append_student_row(row) == rows' = Append(rows, row)

(***************************************************************************)
(* Python's int(), strptime('%d/%m/%Y') and date arithmetic on the texts   *)
(* of the model.  Day 0, the model's today, is 01/01/2027.                 *)
(***************************************************************************)
IntOf(txt) ==
    CASE txt = "3"      -> [ok |-> TRUE, v |-> 3]
      [] txt = "0"      -> [ok |-> TRUE, v |-> 0]
      [] txt = "500000" -> [ok |-> TRUE, v |-> 500000]
      [] OTHER          -> [ok |-> FALSE, v |-> 0]

DateOf(txt) ==
    CASE txt = "01/04/2027" -> [ok |-> TRUE, d |-> 90]
      [] OTHER              -> [ok |-> FALSE, d |-> 0]

\* date.max, 31/12/9999, in days from day 0: datetime + timedelta raises
\* OverflowError beyond it.
LastDay == 2912077

\* The try blocks of reg_period (1109-1120) and handle_subscription_period
\* (346-359): the end date, "invalid" (both parses raised ValueError) or
\* "overflow" (an OverflowError leaves the handler).
ParsePeriod(txt, MonthsOk(_)) ==
    IF IntOf(txt).ok /\ MonthsOk(IntOf(txt).v)
      THEN IF today + IntOf(txt).v * 30 > LastDay
             THEN [res |-> "overflow", end |-> EmptyEnd]
             ELSE [res |-> "ok", end |-> DateEnd(today + IntOf(txt).v * 30)]
    ELSE IF DateOf(txt).ok
      THEN [res |-> "ok", end |-> DateEnd(DateOf(txt).d)]
    ELSE [res |-> "invalid", end |-> EmptyEnd]

(***************************************************************************)
(* student_bot.py: the /register conversation, lines 964-1213, and its     *)
(* wiring, lines 1366-1383.                                                *)
(***************************************************************************)
Texts == {"txt"}                          \* a name, a phone, a speciality...
NiveauTexts     == {"3as", "5AS"}
NiveauCallbacks == {"niv:3AS", "niv:5AS"}
SubjectTexts    == {"Math, maths", "Histoire Geo", "Math; maths", "Math,",
                    "Chimie"}
PeriodTexts     == {"3", "0", "500000", "01/04/2027", "soon"}
OneSubjectTexts == {"Histoire Geo", "Mathh", "Math, maths", "Math; maths",
                    "Chimie"}

\* callback_query.data.split(":", 1)[1]
AfterColon(data) ==
    CASE data = "niv:3AS" -> "3AS"
      [] data = "niv:5AS" -> "5AS"
      [] OTHER -> data

reg == s_user_data.reg

\* The update a handler is given.
HandledIn(chat, bot, handler, input) ==
    last' = [bot |-> bot, chat |-> chat, handler |-> handler, input |-> input]

Handled(bot, handler, input) == HandledIn("private", bot, handler, input)

\* What a handler of the student bot leaves alone.
StudentFrame ==
    /\ UNCHANGED <<a_state, a_user_data, add_run, ADMIN_IDS, a_api, relayed,
                   tasks>>
    /\ UNCHANGED notWizard

\* A handler of /register that writes no sheet and moves to a state.
RegTo(chat, state, newReg) ==
    /\ reg_state' = [reg_state EXCEPT ![chat] = state]
    /\ s_user_data' = [s_user_data EXCEPT !.reg = newReg]
    /\ UNCHANGED <<rows, channels, addsub_state>>

\* A handler that returns the state it was in, or raises: PTB keeps the
\* conversation's state.
RegStays ==
    UNCHANGED <<reg_state, s_user_data, rows, channels, addsub_state, reg_run>>

\* Lines 964-973.
register_start(chat) ==
    /\ HandledIn(chat, "student", "register_start", "/register")
    /\ reg_run' = [reg_run EXCEPT ![chat] = <<>>]
    /\ IF _student_exists_by_id(Uid)
         THEN RegTo(chat, "END", reg)
         ELSE RegTo(chat, "REG_NAME", EmptyReg)
    /\ StudentFrame

\* A field step that keeps the text as it is: lines 975-978 and 1094-1102.
RegField(chat, handler, state, next, text, newReg) ==
    /\ reg_state[chat] = state
    /\ HandledIn(chat, "student", handler, text)
    /\ IF ~reg.present
         THEN RegStays                       \* KeyError: 'reg'
         ELSE /\ RegTo(chat, next, newReg)
              /\ reg_run' = [reg_run EXCEPT ![chat] = Append(@, state)]
    /\ StudentFrame

reg_name(chat, text) ==
    RegField(chat, "reg_name", "REG_NAME", "REG_PHONE", text,
             [reg EXCEPT !.name = text])

\* Lines 980-991.
reg_phone(chat, text) ==
    RegField(chat, "reg_phone", "REG_PHONE", "REG_NIVEAU", text,
             [reg EXCEPT !.phone = text])

\* Lines 993-1011; data is a button's callback data or a typed text.
reg_niveau(chat, data) ==
    LET niv == IF data \in NiveauCallbacks THEN AfterColon(data)
                                           ELSE StrUpper(data)
    IN  /\ reg_state[chat] = "REG_NIVEAU"
        /\ HandledIn(chat, "student", "reg_niveau", data)
        /\ IF niv \notin ALLOWED_NIVEAUX \/ ~reg.present
             THEN RegStays
             ELSE /\ RegTo(chat, "REG_SUBJECTS", [reg EXCEPT !.niveau = niv])
                  /\ reg_run' = [reg_run EXCEPT ![chat] = Append(@, "REG_NIVEAU")]
        /\ StudentFrame

\* Lines 1053, 1063 and 1067 for each text of the model: the labels and the
\* invalid tokens of the typed list.
MappedSubjects ==
    [raw \in SubjectTexts |->
        LET typed == NonEmpty(Split(Tokens(raw)))
        IN  _validate_and_map_labels([i \in 1..Len(typed) |-> Chars(typed[i])])]

\* Line 1285 for each text of the model.
FoundSubject == [raw \in OneSubjectTexts |-> _label_from_input(Chars(raw))]

\* Lines 1040-1091.
reg_subjects(chat, raw) ==
    LET parts_raw  == Split(Tokens(raw))
        mapped     == MappedSubjects[raw]
        underlying == _underlying_for_labels(mapped.labels_ok)
    IN  /\ reg_state[chat] = "REG_SUBJECTS"
        /\ HandledIn(chat, "student", "reg_subjects", raw)
        /\ IF \/ _detect_bad_separators(raw)
              \/ \E i \in 1..Len(parts_raw) : parts_raw[i] = ""
              \/ ~reg.present                \* KeyError at line 1064
              \/ mapped.invalid # <<>>
             THEN RegStays
             ELSE /\ reg_state' = [reg_state EXCEPT ![chat] = "REG_SPECIALITY"]
                  /\ s_user_data' = [s_user_data EXCEPT !.reg =
                         [reg EXCEPT !.labels = mapped.labels_ok,
                                     !.subjects = underlying]]
                  /\ channels' = ensure_subject_channels_rows(
                                     GetOr(reg.niveau, ""), underlying)
                  /\ reg_run' = [reg_run EXCEPT ![chat] = Append(@, "REG_SUBJECTS")]
                  /\ UNCHANGED <<rows, addsub_state>>
        /\ StudentFrame

reg_speciality(chat, text) ==
    RegField(chat, "reg_speciality", "REG_SPECIALITY", "REG_PAYMENT", text,
             [reg EXCEPT !.speciality = text])

reg_payment(chat, text) ==
    RegField(chat, "reg_payment", "REG_PAYMENT", "REG_PERIOD", text,
             [reg EXCEPT !.payment = text])

\* Line 1111.
RegMonthsOk(months) == months > 0

\* Lines 1104-1147.
reg_period(chat, txt) ==
    LET period == ParsePeriod(txt, RegMonthsOk)
    IN  /\ reg_state[chat] = "REG_PERIOD"
        /\ HandledIn(chat, "student", "reg_period", txt)
        /\ IF period.res # "ok" \/ ~reg.present
             THEN RegStays
             ELSE /\ RegTo(chat, "REG_CONFIRM",
                           [reg EXCEPT !.register_date = DateEnd(today),
                                       !.end_date = period.end,
                                       !.telegram_id = Uid])
                  /\ reg_run' = [reg_run EXCEPT ![chat] = Append(@, "REG_PERIOD")]
        /\ StudentFrame

\* Lines 1149-1213; r is {} when the key 'reg' is absent.
reg_confirm(chat, data) ==
    LET r == IF reg.present THEN reg ELSE NoReg
    IN  /\ reg_state[chat] = "REG_CONFIRM"
        /\ HandledIn(chat, "student", "reg_confirm", data)
        /\ reg_state' = [reg_state EXCEPT ![chat] = "END"]
        /\ s_user_data' = [s_user_data EXCEPT !.reg = NoReg]
        /\ IF data = "reg_no" \/ _student_exists_by_id(GetOr(r.telegram_id, ""))
             THEN UNCHANGED <<rows, channels>>
             ELSE /\ channels' = ensure_subject_channels_rows(GetOr(r.niveau, ""), r.subjects)
                  /\ _append_student_row(
                         StudentRow(GetOr(r.phone, ""), GetOr(r.name, ""),
                                    Join(r.subjects), GetOr(r.speciality, ""),
                                    GetOr(r.payment, ""), GetOr(r.telegram_id, ""),
                                    r.register_date, r.end_date,
                                    GetOr(r.niveau, "")))
        /\ UNCHANGED <<addsub_state, reg_run>>
        /\ StudentFrame

\* Lines 936-940 as the fallback of register_conv, line 1381.
register_cancel(chat) ==
    /\ reg_state[chat] # "END"
    /\ HandledIn(chat, "student", "set_channel_cancel", "/cancel")
    /\ reg_state' = [reg_state EXCEPT ![chat] = "END"]
    /\ UNCHANGED <<s_user_data, rows, channels, addsub_state, reg_run>>
    /\ StudentFrame

(***************************************************************************)
(* student_bot.py: the add-subject conversation, lines 1233-1332 and       *)
(* 1386-1392, followed in the private chat.                                *)
(***************************************************************************)
addsub == s_user_data.addsub

\* Lines 1233-1253.
addsub_start ==
    LET k == _find_student_row_by_id(Uid)
    IN  /\ Handled("student", "addsub_start", "addsub_start")
        /\ IF k = 0
             THEN /\ addsub_state' = "END"
                  /\ UNCHANGED s_user_data
             ELSE /\ addsub_state' = "ADD_SUBJECT_INPUT"
                  /\ s_user_data' = [s_user_data EXCEPT !.addsub =
                         [present |-> TRUE, niveau |-> rows[k].Niveau,
                          current |-> NonEmpty(Split(rows[k].Subjects)),
                          uid |-> Uid]]
        /\ UNCHANGED <<reg_state, rows, channels, reg_run>>
        /\ StudentFrame

\* register_conv comes first among the handlers: a text reaches addsub_conv
\* only when register_conv has no handler for it.
TextReachesAddsub == reg_state["private"] \in {"END", "REG_CONFIRM"}

\* Lines 1255-1332.
addsub_receive(raw) ==
    LET found   == FoundSubject[raw]
        to_add  == LABEL_TO_UNDERLYING[found.label]
        merged  == Dedup(addsub.current \o to_add)
        k       == _find_student_row_by_id(addsub.uid)
    IN  /\ addsub_state = "ADD_SUBJECT_INPUT"
        /\ TextReachesAddsub
        /\ Handled("student", "addsub_receive", raw)
        /\ IF ~addsub.present
             THEN /\ addsub_state' = "END"
                  /\ UNCHANGED <<s_user_data, rows, channels>>
           ELSE IF \/ \E i \in 1..Len(Tokens(raw)) : Tokens(raw)[i] = ","
                   \/ _detect_bad_separators(raw)
                   \/ found.label = None
                   \/ found.label \notin ALLOWED_LABELS
             THEN UNCHANGED <<addsub_state, s_user_data, rows, channels>>
           ELSE IF k = 0
             THEN /\ addsub_state' = "END"
                  /\ UNCHANGED <<s_user_data, rows, channels>>
             ELSE /\ rows' = [rows EXCEPT ![k].Subjects = Join(merged)]
                  /\ channels' = ensure_subject_channels_rows(addsub.niveau, to_add)
                  /\ s_user_data' = [s_user_data EXCEPT !.addsub = NoAddsub]
                  /\ addsub_state' = "END"
        /\ UNCHANGED <<reg_state, reg_run>>
        /\ StudentFrame

\* Lines 936-940 as the fallback of addsub_conv, line 1389.
addsub_cancel ==
    /\ reg_state["private"] = "END"
    /\ addsub_state # "END"
    /\ Handled("student", "set_channel_cancel", "/cancel")
    /\ addsub_state' = "END"
    /\ UNCHANGED <<reg_state, s_user_data, rows, channels, reg_run>>
    /\ StudentFrame

NextStudent ==
    \/ \E chat \in Chats : register_start(chat)
    \/ \E chat \in Chats, text \in Texts :
          \/ reg_name(chat, text)
          \/ reg_phone(chat, text)
          \/ reg_speciality(chat, text)
          \/ reg_payment(chat, text)
    \/ \E chat \in Chats, data \in NiveauTexts \cup NiveauCallbacks :
          reg_niveau(chat, data)
    \/ \E chat \in Chats, raw \in SubjectTexts : reg_subjects(chat, raw)
    \/ \E chat \in Chats, txt \in PeriodTexts : reg_period(chat, txt)
    \/ \E chat \in Chats, data \in {"reg_yes", "reg_no"} : reg_confirm(chat, data)
    \/ \E chat \in Chats : register_cancel(chat)
    \/ addsub_start
    \/ \E raw \in OneSubjectTexts : addsub_receive(raw)
    \/ addsub_cancel

(***************************************************************************)
(* admin_bot.py: the spreadsheet helpers, lines 149-220.                   *)
(***************************************************************************)

\* Lines 149-172: Subjects_Channels after the call.
admin_ensure_subject_channels_rows(niveau, subjects_csv) ==
    LET subjects == NonEmpty(Split(Tokens(subjects_csv)))
    IN  IF subjects_csv = "" THEN channels
        ELSE channels \cup {<<niveau, Underscore(subjects[i])>> : i \in 1..Len(subjects)}

\* Lines 175-181.
check_phone_exists(phone_number) ==
    \E k \in 1..Len(rows) : rows[k].Phone = phone_number

\* Lines 183-189.
check_telegram_id_exists(telegram_id) ==
    \E k \in 1..Len(rows) : rows[k].ID = telegram_id

\* Lines 191-202: the sheet's row row_number is rows[row_number - 1].
delete_student(row_number) ==
    IF row_number - 1 \in 1..Len(rows)
      THEN SubSeq(rows, 1, row_number - 2) \o SubSeq(rows, row_number, Len(rows))
      ELSE rows

\* Lines 204-220.
add_student(p) ==
    rows' = Append(rows,
        [Phone |-> p.phone, Name |-> p.name, Subjects |-> Tokens(p.subjects),
         Speciality |-> p.speciality, Payment |-> p.payment,
         ID |-> p.telegram_id, Reg |-> p.register_date, End |-> p.end_date,
         Sub |-> "TRUE", Ten |-> "FALSE", Three |-> "FALSE",
         Niveau |-> p.niveau])

\* A row of the sheet with no cell filled.
BlankRow ==
    [Phone |-> "", Name |-> "", Subjects |-> <<>>, Speciality |-> "",
     Payment |-> "", ID |-> "", Reg |-> EmptyEnd, End |-> EmptyEnd,
     Sub |-> "", Ten |-> "", Three |-> "", Niveau |-> ""]

\* Lines 509-515: values().update of one cell; rows below the last one are
\* blank until then.
UpdateCell(row_number, column, value) ==
    LET k      == row_number - 1
        padded == [j \in 1..(IF k > Len(rows) THEN k ELSE Len(rows)) |->
                      IF j <= Len(rows) THEN rows[j] ELSE BlankRow]
    IN  [padded EXCEPT ![k] = [@ EXCEPT ![column] = value]]

(***************************************************************************)
(* admin_bot.py: the conversation of the admin bot, lines 223-676, and its *)
(* wiring, lines 692-718.  Its entry points are tried first in every       *)
(* state (allow_reentry).  The states mapping opened with '{' at line 700  *)
(* is closed with ']' at line 715, which Python rejects when the file is   *)
(* compiled; the handlers are modelled with the mapping read as the dict   *)
(* its entries spell out.                                                  *)
(***************************************************************************)
Uuid == "uuid"                    \* str(uuid.uuid4())[:8], a fresh id

NiveauArgs      == {None, "3as"}  \* context.args[0], None without argument
Phones          == {"p1"}
TelegramIds     == {Uid, "a2"}   \* ids the admin types
AdminSubjects   == {"Math"}
EditCallbacks   == {"edit_student_student_2", "edit_student_student_x"}
DeleteCallbacks == {"delete_student_student_2", "delete_student_student_x"}
ColumnCallbacks == {"edit_column_name", "edit_column_niveau"}
UrlTexts        == {"https://zoom.us/j/1", "zoom.us/j/1"}

\* int() of the digits after the prefix of a button's data, 0 for no digits.
RowOf(data) ==
    CASE data = "edit_student_student_2"   -> 2
      [] data = "delete_student_student_2" -> 2
      [] OTHER -> 0

\* query.data.replace('edit_column_', '') and the column it names, line 491.
ColumnOf(data) ==
    CASE data = "edit_column_name"   -> "name"
      [] data = "edit_column_niveau" -> "niveau"
      [] OTHER -> data

valid_columns ==
    ("phone" :> "Phone") @@ ("name" :> "Name") @@ ("subjects" :> "Subjects") @@
    ("speciality" :> "Speciality") @@ ("payment" :> "Payment")

\* Line 606: re.match(r"^https?://", url, re.I)
HasScheme(url) == url \in {"https://zoom.us/j/1"}

au == a_user_data

\* What a handler of the admin bot leaves alone.
AdminFrame ==
    /\ UNCHANGED <<reg_state, addsub_state, s_user_data, reg_run, ADMIN_IDS,
                   tasks>>
    /\ UNCHANGED notWizard

\* A handler that writes no sheet.
AdminTo(state, data) ==
    /\ a_state' = state
    /\ a_user_data' = data
    /\ UNCHANGED <<rows, channels, relayed>>

AdminStays == UNCHANGED <<a_state, a_user_data, rows, channels, add_run, relayed>>

\* Line 47: filters.User(user_id=list(ADMIN_IDS)); with no id at all the
\* filter lets nobody through.
ADMIN_FILTER == AdminUser \in ADMIN_IDS

\* Lines 49-56: the reply 'admins only', nothing else.
_deny(handler, input) ==
    /\ Handled("admin", handler, input)
    /\ a_api' = FALSE
    /\ UNCHANGED <<a_user_data, rows, channels, add_run, relayed>>

\* A wrapper that lets everybody through.
Allowed_Anyone == TRUE

\* Line 61.
Allowed == AdminUser \in ADMIN_IDS

\* Lines 58-65, the decorator of every handler of the conversation.
admin_only(handler, input, func) ==
    IF ~Allowed
      THEN /\ _deny(handler, input)
           /\ a_state' = "END"
           /\ AdminFrame
      ELSE func

\* Lines 235-250.
start_add_student(arg) ==
    LET niveau == IF arg = None THEN None ELSE StrUpper(arg)
    IN  /\ Handled("admin", "start_add_student", arg)
        /\ a_api' = FALSE
        /\ add_run' = <<>>
        /\ IF niveau = None
             THEN AdminTo("END", au)
             ELSE AdminTo("NAME", [ClearedUserData EXCEPT !.niveau = niveau,
                                                         !.new_flow = TRUE])
        /\ AdminFrame

\* Line 255.
AfterName(adding_same_phone) == IF adding_same_phone THEN "TELEGRAM_ID" ELSE "PHONE"

\* Lines 252-259.
handle_name(text) ==
    /\ a_state = "NAME"
    /\ Handled("admin", "handle_name", text)
    /\ a_api' = FALSE
    /\ AdminTo(AfterName(au.adding_same_phone), [au EXCEPT !.name = text])
    /\ add_run' = Append(add_run, "NAME")
    /\ AdminFrame

\* Lines 261-294.
handle_phone(text) ==
    /\ a_state = "PHONE"
    /\ Handled("admin", "handle_phone", text)
    /\ a_api' = ~au.adding_same_phone
    /\ IF au.adding_same_phone
         THEN AdminTo("TELEGRAM_ID", au)
         ELSE AdminTo(IF check_phone_exists(text) THEN "END" ELSE "TELEGRAM_ID",
                      [au EXCEPT !.phone = text])
    /\ add_run' = Append(add_run, "PHONE")
    /\ AdminFrame

\* Lines 296-324.
handle_telegram_id(text) ==
    LET telegram_id_input == IF StrLower(text) = "skip" THEN Uuid ELSE text
    IN  /\ a_state = "TELEGRAM_ID"
        /\ Handled("admin", "handle_telegram_id", text)
        /\ a_api' = TRUE
        /\ AdminTo(IF check_telegram_id_exists(telegram_id_input)
                     THEN "END" ELSE "SUBJECTS",
                   [au EXCEPT !.telegram_id = telegram_id_input])
        /\ add_run' = Append(add_run, "TELEGRAM_ID")
        /\ AdminFrame

\* A field step that keeps the text: lines 326-342.
AdminField(handler, state, next, text, data) ==
    /\ a_state = state
    /\ Handled("admin", handler, text)
    /\ a_api' = FALSE
    /\ AdminTo(next, data)
    /\ add_run' = Append(add_run, state)
    /\ AdminFrame

handle_subjects(text) ==
    AdminField("handle_subjects", "SUBJECTS", "SPECIALITY", text,
               [au EXCEPT !.subjects = text])

handle_speciality(text) ==
    AdminField("handle_speciality", "SPECIALITY", "PAYMENT", text,
               [au EXCEPT !.speciality = text])

\* Line 342.
AfterPayment == "SUBSCRIPTION_PERIOD"

handle_payment(text) ==
    AdminField("handle_payment", "PAYMENT", AfterPayment, text,
               [au EXCEPT !.payment = text])

\* handle_subscription_period without the check of line 351.
AddMonthsOk_Any(months) == TRUE

\* Line 351.
AddMonthsOk(months) == months > 0

\* Lines 344-383.
handle_subscription_period(txt) ==
    LET period == ParsePeriod(txt, AddMonthsOk)
    IN  /\ a_state = "SUBSCRIPTION_PERIOD"
        /\ Handled("admin", "handle_subscription_period", txt)
        /\ a_api' = FALSE
        /\ IF period.res # "ok"
             THEN AdminStays
             ELSE /\ AdminTo("CONFIRM_ADD", [au EXCEPT !.pending_student =
                        [present |-> TRUE,
                         phone |-> GetOr(au.phone, ""),
                         name |-> GetOr(au.name, ""),
                         subjects |-> GetOr(au.subjects, ""),
                         speciality |-> GetOr(au.speciality, ""),
                         payment |-> GetOr(au.payment, ""),
                         telegram_id |-> GetOr(au.telegram_id, Uuid),
                         register_date |-> DateEnd(today),
                         end_date |-> period.end,
                         niveau |-> GetOr(au.niveau, "")]])
                  /\ add_run' = Append(add_run, "SUBSCRIPTION_PERIOD")
        /\ AdminFrame

\* Lines 394-397.
HasPending(pending) == pending.present

\* Lines 385-423.
confirm_add_student(data) ==
    /\ a_state = "CONFIRM_ADD"
    /\ Handled("admin", "confirm_add_student", data)
    /\ a_api' = (data = "confirm_add_yes" /\ HasPending(au.pending_student))
    /\ a_state' = "END"
    /\ IF data = "confirm_add_no"
         THEN /\ a_user_data' = [au EXCEPT !.pending_student = NoPending]
              /\ UNCHANGED <<rows, channels, relayed>>
       ELSE IF ~HasPending(au.pending_student)
         THEN UNCHANGED <<a_user_data, rows, channels, relayed>>
         ELSE /\ channels' = admin_ensure_subject_channels_rows(
                                 au.pending_student.niveau,
                                 au.pending_student.subjects)
              /\ add_student(au.pending_student)
              /\ relayed' = IF /\ NonEmpty(Split(Tokens(au.pending_student.subjects))) # <<>>
                                 /\ STUDENT_BOT_TOKEN
                              THEN relayed \cup {au.pending_student.telegram_id}
                              ELSE relayed
              /\ a_user_data' = [au EXCEPT !.pending_student = NoPending,
                                           !.adding_same_phone = FALSE]
    /\ add_run' = IF data = "confirm_add_yes" /\ HasPending(au.pending_student)
                    THEN Append(add_run, "CONFIRM_ADD") ELSE add_run
    /\ AdminFrame

\* Lines 471-484, an entry point.
start_add_new_student_same_number ==
    /\ Handled("admin", "start_add_new_student_same_number",
               "add_new_student_same_number")
    /\ a_api' = FALSE
    /\ add_run' = <<>>
    /\ IF au.phone # None
         THEN AdminTo("NAME", [au EXCEPT !.adding_same_phone = TRUE])
         ELSE AdminTo("END", au)
    /\ AdminFrame

\* Lines 426-448, an entry point.
start_edit_student(data) ==
    /\ RowOf(data) = 0 \/ RowOf(data) - 1 \in 1..Len(rows)
    /\ Handled("admin", "start_edit_student", data)
    /\ a_api' = FALSE
    /\ IF RowOf(data) # 0
         THEN AdminTo("EDIT_COLUMN", [au EXCEPT !.edit_row_number = RowOf(data)])
         ELSE AdminTo("END", au)
    /\ UNCHANGED add_run
    /\ AdminFrame

\* Lines 486-498.
handle_edit_column(data) ==
    /\ a_state = "EDIT_COLUMN"
    /\ Handled("admin", "handle_edit_column", data)
    /\ a_api' = FALSE
    /\ IF ColumnOf(data) \in DOMAIN valid_columns
         THEN AdminTo("EDIT_VALUE",
                      [au EXCEPT !.edit_column_index = valid_columns[ColumnOf(data)]])
         ELSE AdminTo("EDIT_COLUMN", au)
    /\ UNCHANGED add_run
    /\ AdminFrame

\* Lines 500-522.
handle_edit_value(text) ==
    /\ a_state = "EDIT_VALUE"
    /\ Handled("admin", "handle_edit_value", text)
    /\ a_api' = (au.edit_row_number # NoRow /\ au.edit_column_index # None)
    /\ a_state' = "END"
    /\ IF au.edit_row_number = NoRow \/ au.edit_column_index = None
         THEN UNCHANGED <<a_user_data, rows>>
         ELSE /\ rows' = UpdateCell(au.edit_row_number, au.edit_column_index, text)
              /\ a_user_data' = [au EXCEPT !.edit_row_number = NoRow,
                                           !.edit_column_index = None]
    /\ UNCHANGED <<channels, add_run, relayed>>
    /\ AdminFrame

\* Lines 450-469 behind the entry point of line 697: the handler returns
\* None, and the conversation stays where it is.
handle_callback(data) ==
    /\ Handled("admin", "handle_callback", data)
    /\ a_api' = (RowOf(data) # 0)
    /\ rows' = IF RowOf(data) # 0 THEN delete_student(RowOf(data)) ELSE rows
    /\ UNCHANGED <<a_state, a_user_data, channels, add_run, relayed>>
    /\ AdminFrame

\* Lines 526-530, an entry point.
zoom_start ==
    /\ Handled("admin", "zoom_start", "/zoom")
    /\ a_api' = FALSE
    /\ AdminTo("ZOOM_NIVEAU", [au EXCEPT !.zoom = NoZoom])
    /\ UNCHANGED add_run
    /\ AdminFrame

\* Lines 532-540.
zoom_get_niveau(text) ==
    /\ a_state = "ZOOM_NIVEAU"
    /\ Handled("admin", "zoom_get_niveau", text)
    /\ a_api' = FALSE
    /\ AdminTo("ZOOM_SUBJECT",
               [au EXCEPT !.zoom = [NoZoom EXCEPT !.present = TRUE,
                                                  !.niveau = StrUpper(text)]])
    /\ UNCHANGED add_run
    /\ AdminFrame

\* Lines 542-550.
zoom_get_subject(text) ==
    /\ a_state = "ZOOM_SUBJECT"
    /\ Handled("admin", "zoom_get_subject", text)
    /\ a_api' = FALSE
    /\ IF ~au.zoom.present
         THEN AdminStays                     \* KeyError: 'zoom'
         ELSE /\ AdminTo("ZOOM_URL", [au EXCEPT !.zoom.subject = text])
              /\ UNCHANGED add_run
    /\ AdminFrame

\* Lines 552-601: the ids of the subscribed rows of that niveau and subject.
_find_zoom_recipients(niveau, subject) ==
    LET Wanted(row) ==
            /\ StrUpper(row.Sub) = "TRUE"
            /\ StrLower(row.Niveau) = StrLower(niveau)
            /\ \E i \in 1..Len(row.Subjects) :
                   /\ row.Subjects[i] # ","
                   /\ StrLower(row.Subjects[i]) = StrLower(subject)
            /\ row.ID # ""
        wanted == SelectSeq(rows, Wanted)
    IN  IF Len(rows) = 0 \/ ~cols.ID \/ ~cols.Sub THEN <<>>
        ELSE [i \in 1..Len(wanted) |-> wanted[i].ID]

\* Lines 603-630.
zoom_get_url(url) ==
    /\ a_state = "ZOOM_URL"
    /\ Handled("admin", "zoom_get_url", url)
    /\ a_api' = HasScheme(url)
    /\ IF ~HasScheme(url)
         THEN AdminStays
         ELSE /\ AdminTo("ZOOM_CONFIRM", [au EXCEPT !.zoom =
                    [present |-> TRUE, niveau |-> au.zoom.niveau,
                     subject |-> au.zoom.subject, url |-> url,
                     recipients |-> _find_zoom_recipients(
                                        GetOr(au.zoom.niveau, ""),
                                        GetOr(au.zoom.subject, ""))]])
              /\ UNCHANGED add_run
    /\ AdminFrame

\* Lines 632-676: on 'yes' a message is sent through the student bot to
\* every recipient kept at the URL step.
zoom_confirm(data) ==
    /\ a_state = "ZOOM_CONFIRM"
    /\ Handled("admin", "zoom_confirm", data)
    /\ a_api' = FALSE
    /\ a_state' = "END"
    /\ a_user_data' = [au EXCEPT !.zoom = NoZoom]
    /\ relayed' = IF data = "zoom_send_yes" /\ STUDENT_BOT_TOKEN
                    THEN relayed \cup {au.zoom.recipients[i] :
                                          i \in 1..Len(au.zoom.recipients)}
                    ELSE relayed
    /\ UNCHANGED <<rows, channels, add_run>>
    /\ AdminFrame

\* Lines 679-682, the fallback of line 716.
cancel ==
    /\ a_state # "END"
    /\ Handled("admin", "cancel", "/cancel")
    /\ a_api' = FALSE
    /\ AdminTo("END", au)
    /\ UNCHANGED add_run
    /\ AdminFrame

\* Lines 722-727: a text or a command of somebody who is not an admin, in
\* a private chat, when there are admins at all.
_not_admin_message(text) ==
    /\ ADMIN_IDS # {}
    /\ ~ADMIN_FILTER
    /\ _deny("_not_admin_message", text)
    /\ UNCHANGED a_state
    /\ AdminFrame

\* Lines 692-718: the handlers of conv_handler, each behind its filter and
\* inside the decorator.
NextAdmin ==
    \/ \E arg \in NiveauArgs :
          ADMIN_FILTER /\ admin_only("start_add_student", arg, start_add_student(arg))
    \/ \E text \in Texts :
          /\ ADMIN_FILTER
          /\ \/ admin_only("handle_name", text, handle_name(text))
             \/ admin_only("handle_speciality", text, handle_speciality(text))
             \/ admin_only("handle_payment", text, handle_payment(text))
             \/ admin_only("handle_edit_value", text, handle_edit_value(text))
    \/ \E text \in Phones :
          ADMIN_FILTER /\ admin_only("handle_phone", text, handle_phone(text))
    \/ \E text \in TelegramIds :
          ADMIN_FILTER /\ admin_only("handle_telegram_id", text, handle_telegram_id(text))
    \/ \E text \in AdminSubjects :
          /\ ADMIN_FILTER
          /\ \/ admin_only("handle_subjects", text, handle_subjects(text))
             \/ admin_only("zoom_get_subject", text, zoom_get_subject(text))
    \/ \E txt \in PeriodTexts :
          ADMIN_FILTER /\ admin_only("handle_subscription_period", txt,
                                     handle_subscription_period(txt))
    \/ \E data \in {"confirm_add_yes", "confirm_add_no"} :
          a_state = "CONFIRM_ADD"
              /\ admin_only("confirm_add_student", data, confirm_add_student(data))
    \/ admin_only("start_add_new_student_same_number", "add_new_student_same_number",
                  start_add_new_student_same_number)
    \/ \E data \in EditCallbacks :
          admin_only("start_edit_student", data, start_edit_student(data))
    \/ \E data \in ColumnCallbacks :
          a_state = "EDIT_COLUMN"
              /\ admin_only("handle_edit_column", data, handle_edit_column(data))
    \/ \E data \in DeleteCallbacks :
          admin_only("handle_callback", data, handle_callback(data))
    \/ ADMIN_FILTER /\ admin_only("zoom_start", "/zoom", zoom_start)
    \/ \E text \in NiveauTexts :
          ADMIN_FILTER /\ admin_only("zoom_get_niveau", text, zoom_get_niveau(text))
    \/ \E url \in UrlTexts :
          ADMIN_FILTER /\ admin_only("zoom_get_url", url, zoom_get_url(url))
    \/ \E data \in {"zoom_send_yes", "zoom_send_no"} :
          a_state = "ZOOM_CONFIRM"
              /\ admin_only("zoom_confirm", data, zoom_confirm(data))
    \/ ADMIN_FILTER /\ admin_only("cancel", "/cancel", cancel)
    \/ \E text \in Texts \cup {"/add_student", "/zoom"} : _not_admin_message(text)

\* The ids the environment may name: nobody, the person who writes, or
\* somebody else.
AdminIdChoices == {{}, {AdminUser}, {OtherUser}}

(***************************************************************************)
(* The conversations over a spreadsheet that starts with its header rows   *)
(* only.  The updates of one behaviour are all addressed to the same bot,  *)
(* each handled to its end before the next.                                *)
(***************************************************************************)
InitWizard ==
    /\ MainAtRest /\ SweepAtRest /\ PureAtRest
    /\ WizardInit0
    /\ ADMIN_IDS \in AdminIdChoices

\* The student bot's handlers read nothing of the admin bot's ADMIN_IDS, so
\* the student's conversations are followed under one value of it.
NextWizard ==
    \/ last.bot \in {"none", "student"} /\ ADMIN_IDS = {AdminUser} /\ NextStudent
    \/ last.bot \in {"none", "admin"} /\ NextAdmin

SpecWizard == InitWizard /\ [][NextWizard]_vars

(***************************************************************************)
(* student_bot.py: the /set conversation, lines 711-940, and its wiring,   *)
(* lines 1346-1363.  One group admin talks to the bot in a group; a        *)
(* conversation is kept per group, context.user_data per user.  A button   *)
(* is pressed on a message that carries it: the confirm buttons come with  *)
(* the prompt of lines 815-825 and go when set_channel_confirm edits the   *)
(* message.  The requests to the Sheets API succeed.                       *)
(***************************************************************************)
MaxPrompts == 1     \* messages with confirm buttons kept in a group

SetNiveauInputs  == {"setniv:3AS", "3as", " "}
SetSubjectTexts  == {"Math", "math", "Chimie", " "}

\* str.strip() of a text of the model.
StripText(text) == IF text = " " THEN "" ELSE text

\* Lines 746-753: the niveau of a button's data or of a typed text.
SetNiveauOf(data) ==
    CASE data = "setniv:3AS" -> "3AS"
      [] OTHER -> StrUpper(StripText(data))

\* Lines 205-216, for a cell of the model: a trailing '.0' is dropped.
_id_str_norm(value) ==
    CASE value = "g1.0" -> "g1"
      [] OTHER -> value

\* str.lower() of a key.
KeyLower(key) == <<StrLower(key[1]), StrLower(key[2])>>

sud == set_user_data

\* Line 794: the rows the handler works on; an empty sheet is given its
\* header first.
SetValues == IF links = <<>> THEN <<LinksHeader>> ELSE links

\* Lines 802-805: the last row with the key, 0 (None) for none.
TargetRowIndex(values, key_lower) ==
    LET hits == {i \in 2..Len(values) : KeyLower(values[i].key) = key_lower}
    IN  IF hits = {} THEN 0 ELSE CHOOSE i \in hits : \A j \in hits : j <= i

\* The conflict check with the group's own rows left out.
Conflicts_None(values, g, key_lower) == {}

\* Lines 802-807: the rows that store this group's id against another key.
Conflicts(values, g, key_lower) ==
    {i \in 2..Len(values) :
        /\ _id_str_norm(values[i].gid) # ""
        /\ _id_str_norm(values[i].gid) = _id_str_norm(g)
        /\ KeyLower(values[i].key) # key_lower}

\* Lines 829-852 and 893-916: the sheet after the append or the update of
\* column B.
WriteLink(values, target_row_index, key, gid) ==
    IF target_row_index = 0
      THEN Append(values, [key |-> key, gid |-> gid])
      ELSE [i \in 1..(IF target_row_index > Len(values)
                        THEN target_row_index ELSE Len(values)) |->
               IF i = target_row_index
                 THEN [key |-> IF i <= Len(values) THEN values[i].key ELSE "",
                       gid |-> gid]
               ELSE IF i <= Len(values) THEN values[i]
               ELSE [key |-> "", gid |-> ""]]

\* Column A of the sheet, as the other conversations see it.
KeysOf(values) == {values[i].key : i \in 2..Len(values)}

\* What a handler of /set leaves alone.
SetFrame ==
    /\ UNCHANGED <<rows, reg_state, addsub_state, s_user_data, a_state,
                   a_user_data, ADMIN_IDS, a_api, relayed, reg_run, add_run,
                   tasks, STUDENT_BOT_TOKEN, zoom_run>>
    /\ UNCHANGED notConversations

\* A handler of /set that writes no sheet.
SetTo(g, state, data) ==
    /\ set_state' = [set_state EXCEPT ![g] = state]
    /\ set_user_data' = data
    /\ UNCHANGED <<links, channels, set_prompts>>

\* Lines 724-743, an entry point; is_admin is _is_admin_for_set's answer.
set_channel_start(g, is_admin) ==
    /\ HandledIn(g, "student", "set_channel_start", "/set")
    /\ SetTo(g, IF is_admin THEN "SET_NIVEAU" ELSE "END", sud)
    /\ SetFrame

\* Lines 745-765.
set_channel_get_niveau(g, data) ==
    LET niveau == SetNiveauOf(data)
    IN  /\ set_state[g] = "SET_NIVEAU"
        /\ HandledIn(g, "student", "set_channel_get_niveau", data)
        /\ IF niveau = ""
             THEN SetTo(g, "SET_NIVEAU", sud)
             ELSE SetTo(g, "SET_SUBJECT", [sud EXCEPT !.set_niveau = niveau])
        /\ SetFrame

\* Lines 767-867.
set_channel_get_subject(g, text) ==
    LET subject   == StripText(text)
        niveau    == GetOr(sud.set_niveau, "")
        key       == _key_for(niveau, subject)
        key_lower == KeyLower(key)
        values    == SetValues
        target    == TargetRowIndex(values, key_lower)
    IN  /\ set_state[g] = "SET_SUBJECT"
        /\ HandledIn(g, "student", "set_channel_get_subject", text)
        /\ IF subject = ""
             THEN SetTo(g, "SET_SUBJECT", sud)
           ELSE IF Conflicts(values, g, key_lower) # {}
             THEN /\ set_state' = [set_state EXCEPT ![g] = "SET_CONFIRM"]
                  /\ set_user_data' = [sud EXCEPT !.pending_set =
                         [present |-> TRUE, key_canonical |-> key,
                          target_row_index |-> target,
                          chat_id_to_store |-> g]]
                  /\ set_prompts' = [set_prompts EXCEPT ![g] =
                                        IF @ < MaxPrompts THEN @ + 1 ELSE @]
                  /\ links' = values
                  /\ UNCHANGED channels
             ELSE /\ links' = WriteLink(values, target, key, g)
                  /\ channels' = KeysOf(links')
                  /\ set_state' = [set_state EXCEPT ![g] = "END"]
                  /\ set_user_data' = [sud EXCEPT !.set_niveau = None]
                  /\ UNCHANGED set_prompts
        /\ SetFrame

\* Lines 869-934; the message with the buttons is edited on every path.
set_channel_confirm(g, data) ==
    LET pending == sud.pending_set
    IN  /\ set_state[g] \in {"SET_SUBJECT", "SET_CONFIRM"}
        /\ set_prompts[g] > 0
        /\ HandledIn(g, "student", "set_channel_confirm", data)
        /\ set_prompts' = [set_prompts EXCEPT ![g] = @ - 1]
        /\ set_state' = [set_state EXCEPT ![g] = "END"]
        /\ IF ~pending.present
             THEN UNCHANGED <<set_user_data, links, channels>>
           ELSE IF data = "set_confirm_no"
             THEN /\ set_user_data' = [set_niveau |-> None,
                                       pending_set |-> NoPendingSet]
                  /\ UNCHANGED <<links, channels>>
             ELSE /\ links' = WriteLink(links, pending.target_row_index,
                                        pending.key_canonical,
                                        pending.chat_id_to_store)
                  /\ channels' = KeysOf(links')
                  /\ set_user_data' = [set_niveau |-> None,
                                       pending_set |-> NoPendingSet]
        /\ SetFrame

\* Lines 936-940, the fallback of set_conv.
set_channel_cancel(g) ==
    /\ set_state[g] # "END"
    /\ HandledIn(g, "student", "set_channel_cancel", "/cancel")
    /\ SetTo(g, "END", [set_niveau |-> None, pending_set |-> NoPendingSet])
    /\ SetFrame

\* The rows Subjects_Channels may start with: a key with no group yet, as
\* ensure_subject_channels_rows leaves it, or with a group's id, as /set
\* stored it or as somebody typed it.
LinkChoices ==
    {[key |-> <<"3AS", "Math">>, gid |-> gid] : gid \in {"", "g1", "g1.0", "g2"}}

SetSheets ==
    {<<>>, <<LinksHeader>>} \cup {<<LinksHeader, r>> : r \in LinkChoices}

InitSet ==
    /\ MainAtRest /\ SweepAtRest /\ PureAtRest
    /\ SetAtRest
    /\ links \in SetSheets
    /\ channels = KeysOf(links)
    /\ STUDENT_BOT_TOKEN = TRUE
    /\ zoom_run = NoZoomRun
    /\ reg_state = [chat \in Chats |-> "END"]
    /\ addsub_state = "END"
    /\ s_user_data = [reg |-> NoReg, addsub |-> NoAddsub]
    /\ a_state = "END"
    /\ a_user_data = ClearedUserData
    /\ ADMIN_IDS = {AdminUser}
    /\ last = NoUpdate
    /\ reg_run = [chat \in Chats |-> <<>>]
    /\ add_run = <<>>
    /\ a_api = FALSE
    /\ relayed = {}
    /\ tasks = <<>>

NextSet ==
    \E g \in Groups :
        \/ \E is_admin \in BOOLEAN : set_channel_start(g, is_admin)
        \/ \E data \in SetNiveauInputs : set_channel_get_niveau(g, data)
        \/ \E text \in SetSubjectTexts : set_channel_get_subject(g, text)
        \/ \E data \in {"set_confirm_yes", "set_confirm_no"} :
              set_channel_confirm(g, data)
        \/ set_channel_cancel(g)

SpecSet == InitSet /\ [][NextSet]_vars

(***************************************************************************)
(* admin_bot.py: the /zoom conversation with zoom_confirm (632-676)        *)
(* followed from send to send.  Each send_message is an await that ends    *)
(* with the message sent or with an exception; while the handler awaits,   *)
(* the admin's other updates are handled.  The Students sheet holds up to  *)
(* MaxRecipients rows of the niveau and subject the admin asks for.        *)
(***************************************************************************)
MaxRecipients == 2

\* The next iteration of the loop of lines 661-672 with a failed send left
\* uncounted.
AfterSend_FailureUncounted(run, sent) ==
    [run EXCEPT !.attempted = Append(@, run.recipients[Len(@) + 1]),
                !.ok = IF sent THEN @ + 1 ELSE @]

\* Lines 661-672: one iteration; sent is FALSE when send_message raised.
AfterSend(run, sent) ==
    [run EXCEPT !.attempted = Append(@, run.recipients[Len(@) + 1]),
                !.ok = IF sent THEN @ + 1 ELSE @,
                !.fail = IF sent THEN @ ELSE @ + 1]

ZoomFrame ==
    /\ UNCHANGED <<rows, channels, add_run, reg_state, addsub_state,
                   s_user_data, reg_run, ADMIN_IDS, tasks, links, set_state,
                   set_user_data, set_prompts, STUDENT_BOT_TOKEN>>
    /\ UNCHANGED notConversations

\* Lines 633-659: to the reply of an early exit and its return, or to the
\* first send.  One zoom_confirm is followed at a time.
zoom_confirm_called(data) ==
    LET recipients == IF au.zoom.present THEN au.zoom.recipients ELSE <<>>
    IN  /\ a_state = "ZOOM_CONFIRM"
        /\ zoom_run.pc # "send"
        /\ Handled("admin", "zoom_confirm", data)
        /\ a_api' = FALSE
        /\ IF data = "zoom_send_no" \/ ~STUDENT_BOT_TOKEN \/ recipients = <<>>
             THEN /\ a_user_data' = [au EXCEPT !.zoom = NoZoom]
                  /\ a_state' = "END"
                  /\ zoom_run' = [NoZoomRun EXCEPT !.pc = "done",
                                                   !.data = data,
                                                   !.recipients = recipients]
             ELSE /\ zoom_run' = [NoZoomRun EXCEPT !.pc = "send",
                                                   !.data = data,
                                                   !.recipients = recipients]
                  /\ UNCHANGED <<a_state, a_user_data>>
        /\ UNCHANGED relayed
        /\ ZoomFrame

\* Lines 661-672: the send to the next recipient.
zoom_confirm_send(sent) ==
    /\ zoom_run.pc = "send"
    /\ Len(zoom_run.attempted) < Len(zoom_run.recipients)
    /\ relayed' = relayed \cup {zoom_run.recipients[Len(zoom_run.attempted) + 1]}
    /\ zoom_run' = AfterSend(zoom_run, sent)
    /\ UNCHANGED <<a_state, a_user_data, a_api, last>>
    /\ ZoomFrame

\* Lines 674-676: the report, and the return.
zoom_confirm_returns ==
    /\ zoom_run.pc = "send"
    /\ Len(zoom_run.attempted) = Len(zoom_run.recipients)
    /\ zoom_run' = [zoom_run EXCEPT !.pc = "done"]
    /\ a_user_data' = [au EXCEPT !.zoom = NoZoom]
    /\ a_state' = "END"
    /\ UNCHANGED <<relayed, a_api, last>>
    /\ ZoomFrame

\* The rows of Students: students of 3AS who take Math, subscribed or not.
ZoomRow(id, sub) ==
    [StudentRow("txt", "txt", <<"Math">>, "txt", "txt", id, DateEnd(0),
                DateEnd(90), "3AS") EXCEPT !.Sub = sub]

ZoomSheets ==
    UNION { [1..n -> {ZoomRow(id, sub) : id \in TelegramIds,
                                         sub \in {"TRUE", "FALSE"}}] :
            n \in 0..MaxRecipients }

InitZoom ==
    /\ MainAtRest /\ PureAtRest
    /\ swLast = NoIteration
    /\ cols = AllCols
    /\ rows \in ZoomSheets
    /\ today = 0
    /\ swPc = "idle" /\ swRows = <<>> /\ swToday = 0 /\ swIdx = 1
    /\ swRaised = FALSE /\ evaluated = {}
    /\ watch = 1
    /\ tenSent = 0 /\ threeSent = 0 /\ expirySent = 0
    /\ SetAtRest
    /\ links = <<LinksHeader>>
    /\ channels = {}
    /\ STUDENT_BOT_TOKEN \in BOOLEAN
    /\ zoom_run = NoZoomRun
    /\ reg_state = [chat \in Chats |-> "END"]
    /\ addsub_state = "END"
    /\ s_user_data = [reg |-> NoReg, addsub |-> NoAddsub]
    /\ a_state = "END"
    /\ a_user_data = ClearedUserData
    /\ ADMIN_IDS = {AdminUser}
    /\ last = NoUpdate
    /\ reg_run = [chat \in Chats |-> <<>>]
    /\ add_run = <<>>
    /\ a_api = FALSE
    /\ relayed = {}
    /\ tasks = <<>>

NextZoom ==
    \/ admin_only("zoom_start", "/zoom", zoom_start)
    \/ admin_only("zoom_get_niveau", "3as", zoom_get_niveau("3as"))
    \/ admin_only("zoom_get_subject", "Math", zoom_get_subject("Math"))
    \/ \E url \in UrlTexts : admin_only("zoom_get_url", url, zoom_get_url(url))
    \/ \E data \in {"zoom_send_yes", "zoom_send_no"} :
          admin_only("zoom_confirm", data, zoom_confirm_called(data))
    \/ \E sent \in BOOLEAN : zoom_confirm_send(sent)
    \/ zoom_confirm_returns
    \/ admin_only("cancel", "/cancel", cancel)

SpecZoom == InitZoom /\ [][NextZoom]_vars

(***************************************************************************)
(* The two bots in the one event loop of main.py, each update in a task of *)
(* its own (main.py 111 and 130: asyncio.create_task(_process_update)).    *)
(* A task runs until it awaits; then any other task may run.  The          *)
(* conversation's state is read when the update is matched against the     *)
(* handlers and written when the handler returns, so an update that        *)
(* arrives while a handler awaits is matched against the state the handler *)
(* was called in.  The confirm handlers, which write the sheets, are       *)
(* followed from await to await; the handlers before them write            *)
(* user_data and reply, and are taken whole, with replies the wizards      *)
(* accept.                                                                 *)
(***************************************************************************)
Task(handler, chat, data) ==
    [handler |-> handler, chat |-> chat, data |-> data, pc |-> "answer"]

\* The update a task was started for.
UpdateOf(bot, task) ==
    [bot |-> bot, chat |-> task.chat, handler |-> task.handler,
     input |-> task.data]

TaskTo(t, pc) == tasks' = [tasks EXCEPT ![t].pc = pc]

TaskFrame == UNCHANGED ADMIN_IDS /\ UNCHANGED notWizard

AdminTaskFrame ==
    /\ UNCHANGED <<reg_state, addsub_state, s_user_data, reg_run>>
    /\ TaskFrame

StudentTaskFrame ==
    /\ UNCHANGED <<a_state, a_user_data, add_run, a_api, relayed, addsub_state,
                   reg_run>>
    /\ TaskFrame

\* admin_bot.py 386-388: the task is started for a press of a confirm
\* button and runs to 'await query.answer()'.
confirm_add_student_called(data) ==
    /\ a_state = "CONFIRM_ADD"
    /\ Len(tasks) < MaxTasks
    /\ Handled("admin", "confirm_add_student", data)
    /\ tasks' = Append(tasks, Task("confirm_add_student", "private", data))
    /\ a_api' = FALSE
    /\ UNCHANGED <<a_state, a_user_data, rows, channels, relayed, add_run>>
    /\ AdminTaskFrame

\* Lines 389-419: from the answer to the next await, which is the reply of
\* line 391 or 396, the invites of line 417, or the reply of line 423.
confirm_add_student_answered(t) ==
    LET task    == tasks[t]
        pending == au.pending_student
        keys    == NonEmpty(Split(Tokens(pending.subjects)))
    IN  /\ task.handler = "confirm_add_student"
        /\ task.pc = "answer"
        /\ last' = UpdateOf("admin", task)
        /\ a_api' = (task.data = "confirm_add_yes" /\ HasPending(pending))
        /\ IF task.data = "confirm_add_no"
             THEN /\ a_user_data' = [au EXCEPT !.pending_student = NoPending]
                  /\ TaskTo(t, "reply")
                  /\ UNCHANGED <<rows, channels, relayed, add_run>>
           ELSE IF ~HasPending(pending)
             THEN /\ TaskTo(t, "reply")
                  /\ UNCHANGED <<a_user_data, rows, channels, relayed, add_run>>
             ELSE /\ channels' = admin_ensure_subject_channels_rows(
                                     pending.niveau, pending.subjects)
                  /\ add_student(pending)
                  /\ add_run' = Append(add_run, "CONFIRM_ADD")
                  /\ IF keys # <<>> /\ STUDENT_BOT_TOKEN
                       THEN /\ relayed' = relayed \cup {pending.telegram_id}
                            /\ TaskTo(t, "invite")
                            /\ UNCHANGED a_user_data
                       ELSE /\ a_user_data' =
                                   [au EXCEPT !.pending_student = NoPending,
                                              !.adding_same_phone = FALSE]
                            /\ TaskTo(t, "reply")
                            /\ UNCHANGED relayed
        /\ UNCHANGED a_state
        /\ AdminTaskFrame

\* Lines 421-423: after the invites, to the reply.
confirm_add_student_invited(t) ==
    /\ tasks[t].handler = "confirm_add_student"
    /\ tasks[t].pc = "invite"
    /\ last' = UpdateOf("admin", tasks[t])
    /\ a_api' = FALSE
    /\ a_user_data' = [au EXCEPT !.pending_student = NoPending,
                                 !.adding_same_phone = FALSE]
    /\ TaskTo(t, "reply")
    /\ UNCHANGED <<a_state, rows, channels, relayed, add_run>>
    /\ AdminTaskFrame

\* Lines 392, 397 and 424: the handler returns END, and the conversation
\* takes it.
confirm_add_student_returns(t) ==
    /\ tasks[t].handler = "confirm_add_student"
    /\ tasks[t].pc = "reply"
    /\ last' = UpdateOf("admin", tasks[t])
    /\ a_api' = FALSE
    /\ a_state' = "END"
    /\ TaskTo(t, "done")
    /\ UNCHANGED <<a_user_data, rows, channels, relayed, add_run>>
    /\ AdminTaskFrame

\* student_bot.py 1150-1151: to 'await query.answer()'.
reg_confirm_called(chat, data) ==
    /\ reg_state[chat] = "REG_CONFIRM"
    /\ Len(tasks) < MaxTasks
    /\ HandledIn(chat, "student", "reg_confirm", data)
    /\ tasks' = Append(tasks, Task("reg_confirm", chat, data))
    /\ UNCHANGED <<reg_state, s_user_data, rows, channels>>
    /\ StudentTaskFrame

\* Lines 1152-1180: from the answer to the next await, which is the reply
\* of line 1154, of line 1159, or the first of lines 1193-1210.
reg_confirm_answered(t) ==
    LET task == tasks[t]
        r    == IF reg.present THEN reg ELSE NoReg
    IN  /\ task.handler = "reg_confirm"
        /\ task.pc = "answer"
        /\ last' = UpdateOf("student", task)
        /\ IF task.data = "reg_no"
             THEN /\ s_user_data' = [s_user_data EXCEPT !.reg = NoReg]
                  /\ TaskTo(t, "reply")
                  /\ UNCHANGED <<rows, channels>>
           ELSE IF _student_exists_by_id(GetOr(r.telegram_id, ""))
             THEN /\ TaskTo(t, "exists")
                  /\ UNCHANGED <<s_user_data, rows, channels>>
             ELSE /\ channels' = ensure_subject_channels_rows(
                                     GetOr(r.niveau, ""), r.subjects)
                  /\ _append_student_row(
                         StudentRow(GetOr(r.phone, ""), GetOr(r.name, ""),
                                    Join(r.subjects), GetOr(r.speciality, ""),
                                    GetOr(r.payment, ""), GetOr(r.telegram_id, ""),
                                    r.register_date, r.end_date,
                                    GetOr(r.niveau, "")))
                  /\ TaskTo(t, "added")
                  /\ UNCHANGED s_user_data
        /\ UNCHANGED reg_state
        /\ StudentTaskFrame

\* Lines 1155, 1160-1161 and 1212-1213: after its reply the handler returns
\* END; on 'yes' it removes 'reg' first.
reg_confirm_returns(t) ==
    /\ tasks[t].handler = "reg_confirm"
    /\ tasks[t].pc \in {"reply", "exists", "added"}
    /\ last' = UpdateOf("student", tasks[t])
    /\ s_user_data' = IF tasks[t].pc = "reply" THEN s_user_data
                      ELSE [s_user_data EXCEPT !.reg = NoReg]
    /\ reg_state' = [reg_state EXCEPT ![tasks[t].chat] = "END"]
    /\ TaskTo(t, "done")
    /\ UNCHANGED <<rows, channels>>
    /\ StudentTaskFrame

\* The steps of /register up to the confirm button, with replies it
\* accepts, in the student's private chat; /register is sent when no run
\* is under way.
RegisterSteps ==
    \E chat \in {"private"} :
        \/ reg_state[chat] = "END" /\ register_start(chat)
        \/ reg_name(chat, "txt")
        \/ reg_phone(chat, "txt")
        \/ reg_niveau(chat, "niv:3AS")
        \/ reg_subjects(chat, "Math, maths")
        \/ reg_speciality(chat, "txt")
        \/ reg_payment(chat, "txt")
        \/ reg_period(chat, "3")

\* The steps of /add_student up to the confirm button; /add_student is
\* sent when no run is under way.
AddStudentSteps ==
    \/ a_state = "END"
           /\ admin_only("start_add_student", "3as", start_add_student("3as"))
    \/ admin_only("handle_name", "txt", handle_name("txt"))
    \/ admin_only("handle_phone", "p1", handle_phone("p1"))
    \/ \E text \in TelegramIds :
          admin_only("handle_telegram_id", text, handle_telegram_id(text))
    \/ admin_only("handle_subjects", "Math", handle_subjects("Math"))
    \/ admin_only("handle_speciality", "txt", handle_speciality("txt"))
    \/ admin_only("handle_payment", "txt", handle_payment("txt"))
    \/ admin_only("handle_subscription_period", "3",
                  handle_subscription_period("3"))

InitTasks ==
    /\ MainAtRest /\ SweepAtRest /\ PureAtRest
    /\ WizardInit0
    /\ ADMIN_IDS = {AdminUser}

NextTasks ==
    \/ RegisterSteps
    \/ AddStudentSteps
    \/ \E data \in {"confirm_add_yes", "confirm_add_no"} :
          admin_only("confirm_add_student", data, confirm_add_student_called(data))
    \/ \E t \in 1..Len(tasks) :
          \/ confirm_add_student_answered(t)
          \/ confirm_add_student_invited(t)
          \/ confirm_add_student_returns(t)
    \/ \E data \in {"reg_yes", "reg_no"} : reg_confirm_called("private", data)
    \/ \E t \in 1..Len(tasks) :
          \/ reg_confirm_answered(t)
          \/ reg_confirm_returns(t)

SpecTasks == InitTasks /\ [][NextTasks]_vars

(***************************************************************************)
(* The sweep and the admin bot in the one event loop of main.py: while the *)
(* sweep awaits send_message the loop runs the admin bot's handlers.       *)
(***************************************************************************)

\* The sheets the two start from, the day before the last: rows of students
\* whose subscription ends on day 2 or on day 11, each with its own chat id.
SweptRowChoices(k) == { Row(k, DateEnd(2), "TRUE"), Row(k, DateEnd(11), "True") }

SweptSheets ==
    UNION { { s \in [1..n -> UNION { SweptRowChoices(k) : k \in 1..MaxSweptRows }] :
                \A k \in 1..n : s[k] \in SweptRowChoices(k) } : n \in 1..MaxSweptRows }

InitSweepAdmin ==
    /\ MainAtRest /\ WizardAtRest /\ PureAtRest
    /\ swLast = NoIteration
    /\ cols = AllCols
    /\ rows \in SweptSheets
    /\ today = MaxDay - 1
    /\ swPc = "idle" /\ swRows = <<>> /\ swToday = 0 /\ swIdx = 1
    /\ swRaised = FALSE /\ evaluated = {}
    /\ watch = 1
    /\ tenSent = 0 /\ threeSent = 0 /\ expirySent = 0

\* student_bot.py 458-465: the iteration that has written the Subscription
\* cell awaits the expiry notice's send_message as its last statement; no
\* statement of the sweep runs between that await and the next iteration.
SweepAwaits == swPc = "run" /\ swLast.expiry # "none"

\* admin_bot.py 450-469: the admin presses a student's delete button, and the
\* update is handled while the sweep awaits.  One such update is followed.
DeleteWhileSweepAwaits ==
    /\ SweepAwaits
    /\ last = NoUpdate
    /\ \E data \in DeleteCallbacks :
          admin_only("handle_callback", data, handle_callback(data))

NextSweepAdmin == NextSweep \/ DeleteWhileSweepAwaits

SpecSweepAdmin == InitSweepAdmin /\ [][NextSweepAdmin]_vars

(***************************************************************************)
(* The helper functions called on their own.  A call is one step: the      *)
(* function, the argument it was given and the result it returned.         *)
(***************************************************************************)
LabelAlphabet == {"M", "m", "a", "t", "h", " "}

\* The texts of at most MaxLen letters of the alphabet.
ShortTexts == UNION {[1..n -> LabelAlphabet] : n \in 0..MaxLen}

\* Other texts: upper case, accents, misspellings, the two-subject label,
\* blanks, letters spaced out.
LabelWords ==
    {<<"M", "A", "T", "H">>,
     <<"M", "A", "T">>,
     <<"M", "a", "t", "h", "s">>,
     <<"F", "R", "A", "N", "C", "A", "I", "S">>,
     <<"F", "r", "a", "n", "c_cedilla", "a", "i", "s">>,
     <<"F", "R", "A", "N", "C_cedilla", "A", "I", "S">>,
     <<"f", "r", "a", "n", "c", "a", "i", "s", "rsquo">>,
     <<"M", "a", "t", "h", "h">>,
     <<"S", "c", "i", "e", "n", "s", "e">>,
     <<"P", "h", "i", "s", "i", "q", "u", "e">>,
     <<"A", "n", "g", "l", "a", "i">>,
     <<"a", "n", "g", "l", "a", "i">>,
     <<"S", "c", "i", "e", "n", "c">>,
     <<"C", "h", "i", "m", "i", "e">>,
     <<"H", "i", "s", "t", "o", "i", "r", "e", " ", "G", "e", "o">>,
     <<"h", "i", "s", "t", "o", "i", "r", "e", " ", "e", "t", " ", "g", "e", "o">>,
     <<"H", "I", "S", "T", "O", "R", "Y", " ", "&", " ", "G", "E", "O", "G", "R", "A", "P", "H", "Y">>,
     <<"g", "e", "o">>,
     <<"h", "i", "s", "t", "o", "i", "r", "e">>,
     <<"H", "i", "s", "t", "o", "i", "r", "e", "-", "G", "e_acute", "o">>,
     <<"g", "e", "o", "g", "r", "a", "p", "h", "i", "e", " ", "h", "i", "s", "t", "o", "i", "r", "e">>,
     <<"h", "i", "s", "t", "o", "r", "y">>,
     <<"H", "i", "s", "t", "o", "i", "r", "e", " ", "G", "o">>,
     <<"\t">>,
     <<" ", "\n", " ">>,
     <<"m", " ", "a", " ", "t", " ", "h", " ", "s">>,
     <<" ", "S", "c", "i", "e", "n", "c", "e", " ">>,
     <<"s", " ", "c", " ", "i">>,
     <<"a", "n", "g", " ", "l", "a", "i", "s">>,
     <<"P", "h", "y", "s", "i", "c", "s", "\n">>,
     <<"ar_ain", " ", "ar_lam", " ", "ar_waw", " ", "ar_meem">>,
     <<"P", "h", "y", "s", "i", "q", "u", "e", " ", "M", "a", "t", "h">>,
     <<"m", "a", "t", "h", ",", "m", "a", "t", "h", "s">>}

LabelInputs ==
    ShortTexts \cup LabelWords \cup DOMAIN SYN_TO_LABEL
        \cup {Chars(l) : l \in ALLOWED_LABELS}

\* The subjects of a typed list, after the split at the commas.
TokenInputs ==
    {Chars("Math"), Chars("maths"), Chars("Mathh"), Chars("Chimie"),
     Chars("Francais"), Chars("Histoire Geo"), <<>>}

TokenLists == UNION {[1..n -> TokenInputs] : n \in 0..MaxTokens}

(***************************************************************************)
(* The resolution of a column by its header, in both bots.                 *)
(***************************************************************************)
\* The characters that the pattern [^a-z0-9] leaves in place.
NormKept ==
    {"a", "b", "c", "d", "e", "f", "g", "h", "i", "j", "k", "l", "m", "n", "o",
     "p", "q", "r", "s", "t", "u", "v", "w", "x", "y", "z",
     "0", "1", "2", "3", "4", "5", "6", "7", "8", "9"}

\* student_bot.py 164-165 and admin_bot.py 102-103: lower case, then every
\* character outside a-z and 0-9 removed.
_norm(s) == SelectSeq(lower(s), LAMBDA c : c \in NormKept)

SetMax(S) == CHOOSE x \in S : \A y \in S : y <= x
SetMin(S) == CHOOSE x \in S : \A y \in S : x <= y

\* student_bot.py 167-169: the dict of normal forms keeps, of several
\* headers with one normal form, the last; indexes count from 0.
_header_index(headers, target_name) ==
    LET hits == {i \in 1..Len(headers) : _norm(headers[i]) = _norm(target_name)}
    IN  IF hits = {} THEN -1 ELSE SetMax(hits) - 1

\* list.index(al) of admin_bot.py 111-112: the first header equal to al.
ListIndex(headers, al) ==
    LET hits == {i \in 1..Len(headers) : headers[i] = al}
    IN  IF hits = {} THEN -1 ELSE SetMin(hits) - 1

\* The loop over the aliases: the first index, in the order of the aliases,
\* that is not -1.
FirstFound(idxs) ==
    LET hits == {k \in 1..Len(idxs) : idxs[k] # -1}
    IN  IF hits = {} THEN -1 ELSE idxs[SetMin(hits)]

\* student_bot.py 182-191 and admin_bot.py 115-124, the same text in both:
\* the first header whose normal form contains all (any) of the tokens' normal
\* forms; an absent or empty token list is skipped.
BySubstring(headers, contains_any, contains_all) ==
    LET hdr_norm == [i \in 1..Len(headers) |-> _norm(headers[i])]
        all_hits == {i \in 1..Len(headers) :
                        \A k \in 1..Len(contains_all) :
                            Contains(hdr_norm[i], _norm(contains_all[k]))}
        any_hits == {i \in 1..Len(headers) :
                        \E k \in 1..Len(contains_any) :
                            Contains(hdr_norm[i], _norm(contains_any[k]))}
    IN  IF contains_all # <<>> /\ all_hits # {} THEN SetMin(all_hits) - 1
        ELSE IF contains_any # <<>> /\ any_hits # {} THEN SetMin(any_hits) - 1
        ELSE -1

\* student_bot.py 171-192.
_header_index_alias(headers, aliases, contains_any, contains_all) ==
    LET try_idx == FirstFound([k \in 1..Len(aliases) |->
                                  _header_index(headers, aliases[k])])
    IN  IF try_idx # -1 THEN try_idx
        ELSE BySubstring(headers, contains_any, contains_all)

\* admin_bot.py 105-124.
admin_header_index_alias(headers, aliases, contains_any, contains_all) ==
    LET found == FirstFound([k \in 1..Len(aliases) |->
                                ListIndex(headers, aliases[k])])
    IN  IF found # -1 THEN found
        ELSE BySubstring(headers, contains_any, contains_all)

\* The header cells of the lists that are resolved.
HeaderTexts ==
    {<<"I", "D">>, <<"I", "d">>, <<"V", "a", "l", "i", "d">>,
     <<"N", "a", "m", "e">>,
     <<"E", "n", "d", "_", "D", "a", "t", "e">>,
     <<"W", "e", "e", "k", "e", "n", "d", " ", "u", "p", "d", "a", "t", "e">>}

HeaderLists == UNION {[1..n -> HeaderTexts] : n \in 0..MaxHeaders}

\* The arguments of the calls at student_bot.py 243, 416 and 258 (and
\* admin_bot.py 569, 570): aliases, contains_any, contains_all.
AliasArgs ==
    {[aliases      |-> <<<<"I", "D">>>>,
      contains_any |-> <<<<"i", "d">>>>,
      contains_all |-> <<>>],
     [aliases      |-> <<<<"E", "n", "d", "_", "D", "a", "t", "e">>,
                         <<"E", "n", "d", " ", "D", "a", "t", "e">>>>,
      contains_any |-> <<>>,
      contains_all |-> <<<<"e", "n", "d">>, <<"d", "a", "t", "e">>>>],
     [aliases      |-> <<<<"S", "t", "u", "d", "e", "n", "t", " ", "N", "a", "m", "e">>,
                         <<"N", "a", "m", "e">>>>,
      contains_any |-> <<<<"n", "a", "m", "e">>>>,
      contains_all |-> <<>>]}

CallHeaderIndexAlias ==
    /\ call = NotCalled
    /\ \E headers \in HeaderLists, a \in AliasArgs :
          call' = [fn  |-> "_header_index_alias",
                   arg |-> [headers |-> headers, aliases |-> a.aliases,
                            contains_any |-> a.contains_any,
                            contains_all |-> a.contains_all],
                   res |-> [student |-> _header_index_alias(headers, a.aliases,
                                            a.contains_any, a.contains_all),
                            admin   |-> admin_header_index_alias(headers, a.aliases,
                                            a.contains_any, a.contains_all)]]
    /\ UNCHANGED notPure

CallLabelFromInput ==
    /\ call = NotCalled
    /\ \E raw \in LabelInputs :
          call' = [fn |-> "_label_from_input", arg |-> raw,
                   res |-> _label_from_input(raw)]
    /\ UNCHANGED notPure

CallValidateAndMapLabels ==
    /\ call = NotCalled
    /\ \E input_list \in TokenLists :
          call' = [fn |-> "_validate_and_map_labels", arg |-> input_list,
                   res |-> _validate_and_map_labels(input_list)]
    /\ UNCHANGED notPure

InitPure == MainAtRest /\ SweepAtRest /\ WizardAtRest /\ PureAtRest

NextPure ==
    \/ CallLabelFromInput
    \/ CallValidateAndMapLabels
    \/ CallHeaderIndexAlias

SpecPure == InitPure /\ [][NextPure]_vars

(***************************************************************************)
(* Claims about the helper functions, checked under SpecPure.              *)
(***************************************************************************)
NoLabel == [label |-> None, reason |-> None]

\* C11: _label_from_input returns (None, None) or a label of ALLOWED_LABELS;
\* an input whose lower-cased form, or lower-cased form without whitespace,
\* is a key of SYN_TO_LABEL gets that key's label with reason "synonym",
\* never a fuzzy result; an empty or blank input gets (None, None).
C11_DictionaryBeforeFuzzy ==
    call.fn = "_label_from_input" =>
        LET raw     == call.arg
            low     == lower(raw)
            compact == NoSpace(low)
        IN  /\ \/ call.res = NoLabel
               \/ /\ call.res.label \in ALLOWED_LABELS
                  /\ call.res.reason \in {"synonym", "fuzzy", "combo"}
            /\ low \in DOMAIN SYN_TO_LABEL =>
                   call.res = [label |-> SYN_TO_LABEL[low], reason |-> "synonym"]
            /\ compact \in DOMAIN SYN_TO_LABEL =>
                   call.res = [label |-> SYN_TO_LABEL[compact], reason |-> "synonym"]
            /\ NoSpace(raw) = <<>> => call.res = NoLabel

\* "Mat" is a key of the dictionary in lower case and also within the cutoff
\* of the label Math: the dictionary answers.
C11_Witness ==
    /\ call.fn = "_label_from_input"
    /\ call.arg = <<"M", "a", "t">>
    /\ get_close_matches(call.arg) = "Math"
    /\ call.res = [label |-> "Math", reason |-> "synonym"]

\* The elements of a list.
Elems(list) == {list[i] : i \in 1..Len(list)}

\* The place of the first token of the list that resolves to the label.
FirstOf(label, input_list) ==
    CHOOSE i \in 1..Len(input_list) :
        /\ _label_from_input(input_list[i]).label = label
        /\ \A j \in 1..(i - 1) : _label_from_input(input_list[j]).label # label

\* C12: every label of ALLOWED_LABELS resolves to itself; labels_ok of
\* _validate_and_map_labels has no duplicates and is in the order of first
\* occurrence, and every token of the input is either mapped to a label of
\* labels_ok or listed in invalid.
C12_CanonicalAndOrdered ==
    /\ call.fn = "_label_from_input" =>
           \A l \in ALLOWED_LABELS : call.arg = Chars(l) => call.res.label = l
    /\ call.fn = "_validate_and_map_labels" =>
           LET input_list == call.arg
               labels_ok  == call.res.labels_ok
               invalid    == call.res.invalid
           IN  /\ \A i, j \in 1..Len(labels_ok) :
                      i # j => labels_ok[i] # labels_ok[j]
               /\ \A i \in 1..Len(labels_ok) :
                      /\ labels_ok[i] \in ALLOWED_LABELS
                      /\ \E k \in 1..Len(input_list) :
                             _label_from_input(input_list[k]).label = labels_ok[i]
               /\ \A i, j \in 1..Len(labels_ok) :
                      i < j => FirstOf(labels_ok[i], input_list)
                                   < FirstOf(labels_ok[j], input_list)
               /\ \A k \in 1..Len(input_list) :
                      LET label == _label_from_input(input_list[k]).label
                      IN  (label \in Elems(labels_ok))
                              <=> (input_list[k] \notin Elems(invalid))
               /\ invalid = SelectSeq(input_list, LAMBDA raw : raw \in Elems(invalid))

\* A list with two spellings of one subject around a subject that is not
\* offered: one label, one invalid token.
C12_Witness ==
    /\ call.fn = "_validate_and_map_labels"
    /\ call.arg = <<Chars("maths"), Chars("Chimie"), Chars("Math")>>
    /\ call.res.labels_ok = <<"Math">>
    /\ call.res.invalid = <<Chars("Chimie")>>

\* The headers of the call that are equal to one of its aliases.
ExactHits ==
    {i \in 1..Len(call.arg.headers) :
        \E k \in 1..Len(call.arg.aliases) :
            call.arg.headers[i] = call.arg.aliases[k]}

\* C13: _header_index_alias puts the exact match first: when a header equals
\* one of the aliases, the index returned is that of a header equal to an
\* alias, even when an earlier header contains the tokens; when no header
\* equals an alias the substring search decides, and -1 is returned when it
\* finds nothing; the admin bot's and the student bot's version return the
\* same index for the same arguments.
C13_ExactFirstSameIndex ==
    call.fn = "_header_index_alias" =>
        LET by_tokens == BySubstring(call.arg.headers, call.arg.contains_any,
                                     call.arg.contains_all)
        IN  /\ call.res.student = call.res.admin
            /\ \A r \in {call.res.student, call.res.admin} :
                  IF ExactHits # {} THEN r + 1 \in ExactHits ELSE r = by_tokens

\* C14: the warm-up starts at once: after on_startup, and after a webhook
\* request that found the applications not ready, each bot's prewarm routine
\* is executed, that is, its warm-up Sheets read is performed; here, once the
\* executor has made the call handed to it for a bot, that bot's warm-up read
\* has run.
C14_WarmupReadPerformed ==
    \A b \in Bots : prewarmed[b] > 0 => warmReads[b] > 0

(***************************************************************************)
(* Claims about the reminder sweep.                                        *)
(***************************************************************************)

\* C1: over any sequence of runs of the sweep, each threshold reminder (10-day,
\* 3-day) is delivered to a row's student at most once.
C1_ReminderAtMostOnce == tenSent <= 1 /\ threeSent <= 1

\* C2: the expiry notice of a row is delivered at most once, and once it has
\* been delivered the row's Subscription cell holds FALSE.
C2_ExpiryExactlyOnce ==
    /\ expirySent <= 1
    /\ expirySent >= 1 => rows[watch].Sub = "FALSE"

\* C3: when a run of the sweep has ended, every row it read that has an ID
\* and a well-formed end date has been evaluated, whatever the other rows hold.
C3_AllRowsEvaluated ==
    swPc = "idle" =>
        \A k \in 1..Len(swRows) :
            (swRows[k].ID # 0 /\ swRows[k].End.k = "date") => k \in evaluated

\* The row the loop's last iteration took, as the run read it at its start,
\* and what the iteration did.
LastRow == swRows[swLast.k]
LastDaysLeft == LastRow.End.d - swToday
LastSubscribed == cols.Sub /\ StrUpper(LastRow.Sub) = "TRUE"
LastQuiet ==
    /\ swLast.expiry = "none" /\ swLast.subCell = "none"
    /\ swLast.ten = "none" /\ swLast.tenFlag = "none"
    /\ swLast.three = "none" /\ swLast.threeFlag = "none"

\* C17: an iteration of the sweep calls send_message for the 10-day reminder
\* only when the row's days_left (end date - today) is in 2..10, and for the
\* 3-day reminder only when it is in 0..3, in both cases only when the row's
\* Subscription reads TRUE and the reminder's flag reads FALSE; for a row with
\* days_left > 10, or with a Subscription other than TRUE and an end date not
\* yet passed, it sends nothing and writes nothing.
C17_RemindersOnlyInWindows ==
    swLast.k # 0 =>
        /\ swLast.ten # "none" =>
              /\ 2 <= LastDaysLeft /\ LastDaysLeft <= 10
              /\ LastSubscribed
              /\ LastRow.Ten = "FALSE"
        /\ swLast.three # "none" =>
              /\ 0 <= LastDaysLeft /\ LastDaysLeft <= 3
              /\ LastSubscribed
              /\ LastRow.Three = "FALSE"
        /\ ( /\ LastRow.End.k = "date"
             /\ \/ LastDaysLeft > 10
                \/ ~LastSubscribed /\ LastDaysLeft >= 0 ) => LastQuiet

\* The 10-day reminder has been sent, alone, to a row with 10 days left.
C17_Witness ==
    /\ swLast.k # 0
    /\ LastDaysLeft = 10
    /\ swLast.ten = "sent"
    /\ swLast.three = "none"

\* C18: in an iteration of the sweep a flag cell turns TRUE, and its update
\* is called at all, only when the send_message of that reminder for that row
\* has succeeded; when the send fails the flag stays FALSE, nothing is raised,
\* the 3-day check that follows a failed 10-day send is made as for any row,
\* and the loop goes on to the rows that remain.
C18_Step ==
    swPc = "run" =>
        LET k      == swIdx
            it     == swLast'
            d      == swRows[k].End.d - swToday
            goesOn == /\ ~swRaised'
                      /\ swIdx' = k + 1
                      /\ swPc' = "run" <=> k < Len(swRows)
        IN  /\ \A j \in 1..Len(rows) :
                  /\ (rows[j].Ten # "TRUE" /\ rows'[j].Ten = "TRUE") =>
                          (j = k /\ it.ten = "sent")
                  /\ (rows[j].Three # "TRUE" /\ rows'[j].Three = "TRUE") =>
                          (j = k /\ it.three = "sent")
            /\ it.tenFlag # "none" => it.ten = "sent"
            /\ it.threeFlag # "none" => it.three = "sent"
            /\ it.ten = "failed" =>
                  /\ rows'[k].Ten = "FALSE"
                  /\ goesOn
                  /\ it.three # "none" <=>
                        (0 <= d /\ d <= 3 /\ cols.Three /\ swRows[k].Three = "FALSE")
            /\ it.three = "failed" =>
                  /\ rows'[k].Three = "FALSE"
                  /\ goesOn

C18_FlagOnlyAfterSend == [][C18_Step]_vars

\* The 10-day send of a row has failed and its flag is FALSE; the 3-day
\* reminder of the same iteration has been sent and recorded, and rows remain.
C18_Witness ==
    /\ swLast.k # 0
    /\ swLast.ten = "failed"
    /\ rows[swLast.k].Ten = "FALSE"
    /\ swLast.three = "sent"
    /\ swLast.threeFlag = "written"
    /\ rows[swLast.k].Three = "TRUE"
    /\ swPc = "run"

\* C20: with no data row in the sheet, or with a header row that has no ID,
\* no Subscription or no end-date column, a run of the sweep evaluates no row,
\* sends no message and writes no cell; with a header row that has no
\* 10DaysReminder (3DaysReminder) column, no iteration sends the 10-day
\* (3-day) reminder.
C20_Step ==
    /\ (Len(rows) = 0 \/ ~cols.ID \/ ~cols.Sub \/ ~cols.End) =>
          /\ swPc' = "idle"
          /\ swLast' = NoIteration
          /\ UNCHANGED <<rows, tenSent, threeSent, expirySent>>
    /\ ~cols.Ten =>
          /\ swLast'.ten = "none" /\ swLast'.tenFlag = "none"
          /\ tenSent' = tenSent
    /\ ~cols.Three =>
          /\ swLast'.three = "none" /\ swLast'.threeFlag = "none"
          /\ threeSent' = threeSent

C20_IncompleteSheetIsLeftAlone == [][C20_Step]_vars

\* The header has no 10DaysReminder column; a subscribed row with 2 days left
\* has been evaluated and has got the 3-day reminder only.
C20_Witness ==
    /\ ~cols.Ten
    /\ swLast.k # 0
    /\ LastSubscribed
    /\ LastDaysLeft = 2
    /\ swLast.ten = "none"
    /\ swLast.three = "sent"

\* C19: an iteration of the sweep changes no row of the sheet but the row of
\* the student it is evaluating, and of that row only the Subscription cell,
\* to FALSE, and the 10DaysReminder and 3DaysReminder cells, to TRUE; it adds
\* and removes no row.
C19_Step ==
    (swPc = "run" /\ swIdx' = swIdx + 1) =>
        /\ Len(rows') = Len(rows)
        /\ \A j \in 1..Len(rows) :
              /\ rows'[j] # rows[j] => rows[j].ID = swRows[swIdx].ID
              /\ rows'[j].ID = rows[j].ID
              /\ rows'[j].End = rows[j].End
              /\ rows'[j].Sub # rows[j].Sub => rows'[j].Sub = "FALSE"
              /\ rows'[j].Ten # rows[j].Ten => rows'[j].Ten = "TRUE"
              /\ rows'[j].Three # rows[j].Three => rows'[j].Three = "TRUE"

C19_WritesConfined == [][C19_Step]_vars

\* The last iteration took a row with an ID and an end date, Subscription
\* TRUE and both reminder flags FALSE, under a header with both flag columns.
LastDue ==
    /\ swLast.k # 0
    /\ LastRow.ID # 0 /\ LastRow.End.k = "date"
    /\ LastSubscribed
    /\ cols.Ten /\ cols.Three
    /\ LastRow.Ten = "FALSE" /\ LastRow.Three = "FALSE"

\* C21 as stated: for such a row with 2 <= days_left <= 3 both reminders are
\* sent and both flags are TRUE afterwards; with 4 <= days_left <= 10 only the
\* 10-day reminder is sent, and with 0 <= days_left <= 1 only the 3-day one.
C21_BothSentAndFlagged ==
    LastDue =>
        /\ (2 <= LastDaysLeft /\ LastDaysLeft <= 3) =>
              /\ swLast.ten = "sent" /\ swLast.three = "sent"
              /\ rows[swLast.k].Ten = "TRUE" /\ rows[swLast.k].Three = "TRUE"
        /\ (4 <= LastDaysLeft /\ LastDaysLeft <= 10) =>
              swLast.ten = "sent" /\ swLast.three = "none"
        /\ (0 <= LastDaysLeft /\ LastDaysLeft <= 1) =>
              swLast.ten = "none" /\ swLast.three = "sent"

\* C21, amended: for such a row the iteration calls send_message for both
\* reminders when 2 <= days_left <= 3, for the 10-day reminder alone when
\* 4 <= days_left <= 10 and for the 3-day reminder alone when
\* 0 <= days_left <= 1; the update of a flag is called exactly when its send
\* has succeeded, and the flag is TRUE afterwards exactly when that update
\* has succeeded too.
C21_BothAttempted ==
    LastDue =>
        /\ (2 <= LastDaysLeft /\ LastDaysLeft <= 3) =>
              swLast.ten # "none" /\ swLast.three # "none"
        /\ (4 <= LastDaysLeft /\ LastDaysLeft <= 10) =>
              swLast.ten # "none" /\ swLast.three = "none"
        /\ (0 <= LastDaysLeft /\ LastDaysLeft <= 1) =>
              swLast.ten = "none" /\ swLast.three # "none"
        /\ swLast.tenFlag # "none" <=> swLast.ten = "sent"
        /\ swLast.threeFlag # "none" <=> swLast.three = "sent"
        /\ rows[swLast.k].Ten = "TRUE" <=> swLast.tenFlag = "written"
        /\ rows[swLast.k].Three = "TRUE" <=> swLast.threeFlag = "written"

\* A row with 3 days left has got both reminders in one iteration, and both
\* its flags are TRUE.
C21_Witness ==
    /\ LastDue
    /\ LastDaysLeft = 3
    /\ swLast.ten = "sent" /\ swLast.three = "sent"
    /\ rows[swLast.k].Ten = "TRUE" /\ rows[swLast.k].Three = "TRUE"

(***************************************************************************)
(* Claims about the conversations, checked under SpecWizard.  In a step    *)
(* of a handler, last' names the handler and the update it was given.      *)
(***************************************************************************)
RegisterHandlers ==
    {"register_start", "reg_name", "reg_phone", "reg_niveau", "reg_subjects",
     "reg_speciality", "reg_payment", "reg_period", "reg_confirm"}
AddStudentHandlers ==
    {"start_add_student", "start_add_new_student_same_number", "handle_name",
     "handle_phone", "handle_telegram_id", "handle_subjects",
     "handle_speciality", "handle_payment", "handle_subscription_period",
     "confirm_add_student"}

ConfirmedYes ==
    \/ last'.handler = "reg_confirm" /\ last'.input = "reg_yes"
    \/ last'.handler = "confirm_add_student" /\ last'.input = "confirm_add_yes"

C4_Step ==
    (/\ last'.handler \in RegisterHandlers \cup AddStudentHandlers
     /\ rows' # rows \/ channels' # channels)
        => ConfirmedYes

\* C4: in the /register and /add_student wizards no handler writes to
\* Students or to Subjects_Channels before the confirming button is pressed:
\* the only steps of the two wizards that change a sheet are the confirm
\* handlers on 'yes'.
C4_NoWriteBeforeConfirm == [][C4_Step]_vars

\* The replies each validating step rejects.
InvalidReply(handler, input) ==
    \/ handler = "reg_niveau" /\ input \in {"5AS", "niv:5AS"}
    \/ handler = "reg_subjects" /\ input \in {"Math; maths", "Math,", "Chimie"}
    \/ handler = "reg_period" /\ input \in {"0", "soon", "500000"}
    \/ handler = "handle_subscription_period" /\ input \in {"0", "soon", "500000"}
    \/ handler = "zoom_get_url" /\ input = "zoom.us/j/1"
    \/ handler = "handle_edit_column" /\ input = "edit_column_niveau"
    \/ handler = "addsub_receive" /\ input \in {"Math, maths", "Math; maths", "Chimie"}

C5_Step ==
    InvalidReply(last'.handler, last'.input) =>
        UNCHANGED <<reg_state, addsub_state, a_state, s_user_data,
                    a_user_data, rows, channels>>

RegFields == <<"REG_NAME", "REG_PHONE", "REG_NIVEAU", "REG_SUBJECTS",
               "REG_SPECIALITY", "REG_PAYMENT">>
AddFields == <<"NAME", "PHONE", "TELEGRAM_ID", "SUBJECTS", "SPECIALITY",
               "PAYMENT">>
SameNumberFields == <<"NAME", "TELEGRAM_ID", "SUBJECTS", "SPECIALITY",
                      "PAYMENT">>

\* A complete row is added below the rows of Students.
RowAppended ==
    /\ Len(rows') = Len(rows) + 1
    /\ SubSeq(rows', 1, Len(rows)) = rows
    /\ rows'[Len(rows')].Sub = "TRUE"

C6_Step ==
    /\ \A chat \in Chats :
           (reg_state'[chat] = "REG_CONFIRM" /\ reg_state[chat] # "REG_CONFIRM") =>
               reg_state[chat] = "REG_PERIOD" /\ last'.handler = "reg_period"
    /\ (a_state' = "CONFIRM_ADD" /\ a_state # "CONFIRM_ADD") =>
           a_state = "SUBSCRIPTION_PERIOD" /\ last'.handler = "handle_subscription_period"
    /\ RowAppended =>
           \/ /\ last'.handler = "reg_confirm" /\ last'.input = "reg_yes"
              /\ reg_state[last'.chat] = "REG_CONFIRM"
              /\ s_user_data.reg.present
              /\ s_user_data.reg.telegram_id # None
              /\ rows'[Len(rows')].ID = s_user_data.reg.telegram_id
           \/ /\ last'.handler = "confirm_add_student"
              /\ last'.input = "confirm_add_yes"
              /\ a_state = "CONFIRM_ADD"
              /\ a_user_data.pending_student.present
              /\ rows'[Len(rows')].ID = a_user_data.pending_student.telegram_id

C6_AllFields ==
    /\ \A chat \in Chats : reg_state[chat] = "REG_PERIOD" => reg_run[chat] = RegFields
    /\ a_state = "SUBSCRIPTION_PERIOD" => add_run = AddFields

\* C6 as stated: the confirm state is entered only from the period step, the
\* period step only after every earlier field step of the wizard has been
\* answered in order, and a Students row is appended only by the confirm
\* handler on 'yes' with the run's pending data present.
C6_WizardsLinear == [](C6_AllFields) /\ [][C6_Step]_vars

\* The underlying subjects of the labels, lines 309-316.
UnderlyingTokens ==
    {"French", "English", "Physic", "Math", "Science", "History", "Geography"}

\* The row a step of /register has added below the rows of Students.
RegisterAppends ==
    /\ last'.handler \in RegisterHandlers
    /\ Len(rows') = Len(rows) + 1

C15_Step ==
    RegisterAppends =>
        LET row      == rows'[Len(rows')]
            subjects == Split(row.Subjects)
        IN  /\ row.Sub = "TRUE"
            /\ row.Ten = "FALSE"
            /\ row.Three = "FALSE"
            /\ row.ID = Uid
            /\ row.Niveau \in ALLOWED_NIVEAUX
            /\ subjects # <<>>
            /\ \A i \in 1..Len(subjects) : subjects[i] \in UnderlyingTokens
            /\ \A i, j \in 1..Len(subjects) : i # j => subjects[i] # subjects[j]

\* C15: every row /register appends to Students has Subscription TRUE, both
\* reminder flags FALSE, the registering user's Telegram id as ID, a niveau of
\* ALLOWED_NIVEAUX, and a subjects cell that is a non-empty list without
\* duplicates of underlying subjects of the labels.
C15_RegisteredRowWellFormed == [][C15_Step]_vars

\* C16: the admin bot is for admins only: an update of the admin bot whose
\* user is not in ADMIN_IDS, ADMIN_IDS empty included, ends with the
\* conversation at END, context.user_data as it was, no call of the Sheets
\* API, no change of a sheet and nothing sent through the student bot.
C16_Step ==
    (last'.bot = "admin" /\ AdminUser \notin ADMIN_IDS) =>
        /\ a_state' = "END"
        /\ a_api' = FALSE
        /\ UNCHANGED <<a_user_data, rows, channels, relayed>>

C16_AdminsOnly == [][C16_Step]_vars

\* Somebody who is not an admin has pressed a delete button, with no admin
\* configured, and the sheet is as it was.
C16_Witness ==
    /\ ADMIN_IDS = {}
    /\ last.bot = "admin"
    /\ last.handler = "handle_callback"
    /\ last.input = "delete_student_student_2"
    /\ a_state = "END"
    /\ rows = <<>>
    /\ ~a_api

(***************************************************************************)
(* Claims about main.py, checked under SpecMain.                           *)
(***************************************************************************)

\* The calls of init_apps that are inside the lock's block.
InBlock == {c \in Callers : initPc[c] \in {"initialize_s", "initialize_a",
                                           "start_s", "start_a"}}
Raised  == {c \in Callers : initPc[c] = "raised"}

C7_State ==
    /\ Cardinality(InBlock) <= 1
    /\ \A c \in InBlock : lockHolder = c
    /\ builds <= 1 + Cardinality(Raised)
    /\ Cardinality(sStarted) <= 1
    /\ Cardinality(aStarted) <= 1
    /\ apps_ready => InBlock = {}

C7_Step ==
    apps_ready =>
        /\ builds' = builds
        /\ sStarted' = sStarted /\ aStarted' = aStarted
        /\ student_app' = student_app /\ admin_app' = admin_app
        /\ \A c \in Callers :
               initPc'[c] # initPc[c] => initPc'[c] = "returned"

KeyOk(r) == SETUP_KEY # "" /\ reqKey[r] = SETUP_KEY

\* C9: a /setup request with SETUP_KEY unset is answered 400, one whose key
\* is missing or differs from SETUP_KEY is answered 403, in both cases without
\* a call of init_apps or set_webhook; only a request with the configured key
\* calls them.
C9_SetupGuard ==
    /\ \A r \in Reqs :
          reqKind[r] = "setup" =>
              /\ SETUP_KEY = "" => resp[r] = 400
              /\ (SETUP_KEY # "" /\ reqKey[r] # SETUP_KEY) => resp[r] = 403
              /\ ~KeyOk(r) => initPc[r] = "none" /\ reqPc[r] = "done"
              /\ KeyOk(r) => initPc[r] # "none" /\ resp[r] \notin {400, 403}
    /\ (\E b \in Bots : setCalls[b] > 0) \/ ensured # NotEnsured =>
          \E r \in Reqs : reqKind[r] = "setup" /\ KeyOk(r) /\ initPc[r] = "returned"

\* One /setup request was refused with 403 and another, with the key, set a
\* webhook.
C9_Witness ==
    \E r, q \in Reqs :
        /\ reqKind[r] = "setup" /\ resp[r] = 403
        /\ reqKind[q] = "setup" /\ KeyOk(q) /\ resp[q] = 200
        /\ setCalls["student"] > 0

C10_State ==
    ensured # NotEnsured =>
        /\ (ensured.info = "ok" /\ ensured.url = WantUrl) => ensured.calls = 0
        /\ (ensured.info = "ok" /\ ensured.url # WantUrl) => ensured.calls = 1
        /\ ensured.info = "telegram_error" => ensured.calls = 1

C10_Step ==
    \A b \in Bots :
        /\ setCalls'[b] # setCalls[b] =>
               /\ setCalls'[b] = setCalls[b] + 1
               /\ ensured'.bot = b /\ ensured'.calls = 1
               /\ ensured'.url = webhookUrl[b]
        /\ (setCalls'[b] = setCalls[b] /\ ensured' # ensured /\ ensured'.bot = b) =>
               ensured'.calls = 0

\* C10: _ensure_webhook does not call set_webhook when get_webhook_info
\* succeeds and reports the wanted URL, and calls it exactly once when the
\* reported URL differs or get_webhook_info fails with a TelegramError.
C10_SetOnlyIfDifferent == [](C10_State) /\ [][C10_Step]_vars

\* The student bot's webhook was already the wanted one and was left alone;
\* get_webhook_info failed for the admin bot's and set_webhook was called once.
C10_Witness ==
    /\ setCalls["student"] = 0
    /\ ensured.bot = "admin"
    /\ ensured.info = "telegram_error"
    /\ ensured.url = WantUrl
    /\ setCalls["admin"] = 1

(***************************************************************************)
(* Claims about the confirm handlers when every update has a task of its   *)
(* own, checked under SpecTasks.                                           *)
(***************************************************************************)
\* C22: each /add_student run that reaches confirmation appends at most one
\* row to Students, also when the 'yes' button's update is delivered more
\* than once or two deliveries are handled concurrently: of the steps
\* recorded since the run's entry point, at most one is an append.
C22_OneRowPerRun ==
    Cardinality({i \in 1..Len(add_run) : add_run[i] = "CONFIRM_ADD"}) <= 1

\* Task t runs from the answer of its button to its next await, and no
\* other task is between two of its awaits.
RunsAlone(t) ==
    /\ tasks[t].pc = "answer"
    /\ tasks'[t].pc # "answer"
    /\ \A u \in 1..Len(tasks) : u # t => tasks[u].pc = "done"

\* The ID of the row the step has appended is the ID of an earlier row.
AppendsKnownId ==
    /\ Len(rows') = Len(rows) + 1
    /\ \E k \in 1..Len(rows) : rows[k].ID = rows'[Len(rows')].ID

C23_Step == \A t \in 1..Len(tasks) : RunsAlone(t) => ~AppendsKnownId

\* C23: from a Students sheet with unique IDs, no interleaving of
\* /add_student runs and /register runs gives two rows the same ID; in
\* particular a confirm handler that runs while no other update is being
\* handled appends no row whose ID an earlier row carries.
C23_IdsStayUnique == [][C23_Step]_vars

\* The step is register_start's.
RegisterStarts == last'.handler = "register_start" /\ tasks' = tasks

\* Task t is reg_confirm's, for 'yes', and runs on from the given await.
RegYesLeaves(t, pc) ==
    /\ tasks[t].handler = "reg_confirm"
    /\ tasks[t].data = "reg_yes"
    /\ tasks[t].pc = pc
    /\ tasks'[t].pc # pc

HasRow(id) == \E k \in 1..Len(rows) : rows[k].ID = id

C24_Step ==
    /\ (RegisterStarts /\ HasRow(Uid)) =>
           /\ reg_state'[last'.chat] = "END"
           /\ UNCHANGED <<rows, channels, s_user_data>>
    /\ \A t \in 1..Len(tasks) :
           /\ (RegYesLeaves(t, "answer") /\ reg.present /\ HasRow(reg.telegram_id)) =>
                  /\ tasks'[t].pc = "exists"
                  /\ UNCHANGED <<rows, channels>>
           /\ RegYesLeaves(t, "exists") =>
                  /\ ~s_user_data'.reg.present
                  /\ reg_state'[tasks[t].chat] = "END"
                  /\ UNCHANGED <<rows, channels>>
           /\ (RegYesLeaves(t, "answer") /\ rows' # rows) =>
                  /\ Len(rows') = Len(rows) + 1
                  /\ SubSeq(rows', 1, Len(rows)) = rows
                  /\ ~HasRow(rows'[Len(rows')].ID)

\* C24: /register creates no second row for a Telegram id that has a row:
\* register_start ends the conversation at once for a registered user, and
\* reg_confirm checks again right before the append; with a row there it
\* appends nothing, removes the pending registration and ends.  Every row
\* /register appends carries an ID no row carried before.
C24_NoSecondRow == [][C24_Step]_vars

\* A second press of 'yes' has found the row the first one appended.
C24_Witness ==
    \E t \in 1..Len(tasks) :
        /\ tasks[t].handler = "reg_confirm"
        /\ tasks[t].data = "reg_yes"
        /\ tasks[t].pc = "exists"
        /\ HasRow(Uid)
        /\ reg.present

(***************************************************************************)
(* Claims about the /set conversation, checked under SpecSet.              *)
(***************************************************************************)
\* The key the subject step is given: the niveau of the run and the text.
EnteredKey == _key_for(GetOr(sud.set_niveau, ""), StripText(last'.input))

\* A row of the sheet stores the group's id against another key.
StoredAgainstOther(g, key) ==
    \E i \in 2..Len(links) :
        /\ links[i].gid \in {g, "g1.0"}
        /\ KeyLower(links[i].key) # KeyLower(key)

SubjectGiven ==
    /\ last'.handler = "set_channel_get_subject"
    /\ StripText(last'.input) # ""

\* The run that found the conflict is declined: 'no' is pressed in
\* SET_CONFIRM, or /cancel is sent.
SetDeclined ==
    \/ /\ last'.handler = "set_channel_confirm"
       /\ last'.input = "set_confirm_no"
       /\ set_state[last'.chat] = "SET_CONFIRM"
    \/ last'.handler = "set_channel_cancel"

SetCleared ==
    /\ ~set_user_data'.pending_set.present
    /\ set_user_data'.set_niveau = None

C25_ConflictStep ==
    (SubjectGiven /\ StoredAgainstOther(last'.chat, EnteredKey)) =>
        /\ UNCHANGED <<links, channels>>
        /\ set_state'[last'.chat] = "SET_CONFIRM"
        /\ set_user_data'.pending_set.present

C25_WriteStep ==
    (links' # links \/ channels' # channels) =>
        \/ SubjectGiven /\ ~StoredAgainstOther(last'.chat, EnteredKey)
        \/ last'.handler = "set_channel_confirm" /\ last'.input = "set_confirm_yes"

C25_Step ==
    /\ C25_ConflictStep
    /\ C25_WriteStep
    /\ SetDeclined => UNCHANGED <<links, channels>> /\ SetCleared

ZoomSends == Len(zoom_run'.attempted) > Len(zoom_run.attempted)

ZoomReturns == zoom_run'.pc = "done" /\ zoom_run' # zoom_run

ZoomEarlyExit(run) ==
    \/ run.data = "zoom_send_no"
    \/ ~STUDENT_BOT_TOKEN
    \/ run.recipients = <<>>

C26_Step ==
    /\ relayed' # relayed => ZoomSends
    /\ ZoomSends => /\ zoom_run.pc = "send"
                    /\ zoom_run.data = "zoom_send_yes"
                    /\ ~ZoomEarlyExit(zoom_run)
                    /\ Len(zoom_run'.attempted) = Len(zoom_run.attempted) + 1
    /\ ZoomReturns =>
          /\ a_user_data'.zoom = NoZoom
          /\ ZoomEarlyExit(zoom_run') =>
                /\ zoom_run'.attempted = <<>>
                /\ zoom_run'.ok = 0 /\ zoom_run'.fail = 0
                /\ relayed' = relayed
          /\ ~ZoomEarlyExit(zoom_run') =>
                /\ zoom_run'.data = "zoom_send_yes"
                /\ zoom_run'.attempted = zoom_run'.recipients
                /\ zoom_run'.ok + zoom_run'.fail = Len(zoom_run'.recipients)

==============================================================================
